---- MODULE Spec2Model ----
(***************************************************************************)
(* A model of go-vobsub: the MPEG program stream walk of a .sub file       *)
(* (StreamParsePacket, ReadSubFile), the reassembly and decoding of the    *)
(* subpicture units (Decode, extractRAWSubtitle, parseCTRLSeqs,            *)
(* SubtitleRAW.Decode) and the rendering of their run-length encoded       *)
(* pixel data (drawOddOrEvenLines, decodeRLE, nibbleIterator).             *)
(*                                                                         *)
(* Bytes are the integers 0..255.  Go slices are sequences; a Go index i   *)
(* is the TLA+ index i+1.  A call ends in one of four ways, its outcome:   *)
(* "ok", "error" (an error value is returned), "panic" (a run-time panic:  *)
(* an index or a slice bound out of range) or "hang" (the call never       *)
(* returns).  Durations are in nanoseconds, as time.Duration.              *)
(***************************************************************************)
EXTENDS Integers, Sequences, FiniteSets, TLC

(***************************************************************************)
(* Bytes and bits                                                          *)
(***************************************************************************)
Byte == 0..255

\* b >> 4 and b & 0x0f of a byte
HighNibble(b) == b \div 16
LowNibble(b) == b % 16

\* int(hi)<<8 | int(lo), binary.BigEndian.Uint16
BE16(hi, lo) == (hi * 256) + lo

\* bit n (0 = least significant) of b
Bit(b, n) == (b \div (2 ^ n)) % 2

\* s[from:to] of a Go slice, for 0 <= from <= to <= len(s)
Slice(s, from, to) == SubSeq(s, from + 1, to)

\* s[from:]
SliceFrom(s, from) == SubSeq(s, from + 1, Len(s))

(***************************************************************************)
(* Subtitle control sequences (part_004, second file)                      *)
(***************************************************************************)
subtitleHeaderLength == 2
subtitleHeaderDataLength == 2
subtitleHeadersTotalLen == subtitleHeaderLength + subtitleHeaderDataLength
subtitleCTRLSeqCmdForceDisplaying == 0
subtitleCTRLSeqCmdStartDate == 1
subtitleCTRLSeqCmdStopDate == 2
subtitleCTRLSeqCmdPalette == 3
subtitleCTRLSeqCmdPaletteArgsLen == 2
subtitleCTRLSeqCmdAlphaChannel == 4
subtitleCTRLSeqCmdAlphaChannelArgsLen == 2
subtitleCTRLSeqCmdCoordinates == 5
subtitleCTRLSeqCmdCoordinatesArgsLen == 6
subtitleCTRLSeqCmdRLEOffsets == 6
subtitleCTRLSeqCmdRLEOffsetsArgsLen == 4
subtitleCTRLSeqCmdEnd == 255

\* the zero value of ControlSequence; a nil pointer field is the empty sequence
ZeroControlSequence ==
    [Date |-> <<0, 0>>, ForceDisplaying |-> FALSE, StartDate |-> FALSE,
     StopDate |-> FALSE, PaletteColors |-> <<>>, AlphaChannels |-> <<>>,
     Coordinates |-> <<>>, RLEOffsets |-> <<>>]

\* the command loop of parseCTRLSeq, from the Go index `index`
RECURSIVE parseCTRLSeqCmds(_, _, _)
parseCTRLSeqCmds(sequences, index, cs) ==
    IF index >= Len(sequences)
    THEN [err |-> "can not read sequence command", cs |-> cs, index |-> index]
    ELSE
      LET cmd == sequences[index + 1]
          i == index + 1
      IN  CASE cmd = subtitleCTRLSeqCmdForceDisplaying ->
                 parseCTRLSeqCmds(sequences, i, [cs EXCEPT !.ForceDisplaying = TRUE])
            [] cmd = subtitleCTRLSeqCmdStartDate ->
                 parseCTRLSeqCmds(sequences, i, [cs EXCEPT !.StartDate = TRUE])
            [] cmd = subtitleCTRLSeqCmdStopDate ->
                 parseCTRLSeqCmds(sequences, i, [cs EXCEPT !.StopDate = TRUE])
            [] cmd = subtitleCTRLSeqCmdPalette ->
                 IF i + subtitleCTRLSeqCmdPaletteArgsLen > Len(sequences)
                 THEN [err |-> "can not read palette command", cs |-> cs, index |-> i]
                 ELSE parseCTRLSeqCmds(sequences, i + subtitleCTRLSeqCmdPaletteArgsLen,
                        [cs EXCEPT !.PaletteColors =
                            Slice(sequences, i, i + subtitleCTRLSeqCmdPaletteArgsLen)])
            [] cmd = subtitleCTRLSeqCmdAlphaChannel ->
                 IF i + subtitleCTRLSeqCmdAlphaChannelArgsLen > Len(sequences)
                 THEN [err |-> "can not read alpha channel command", cs |-> cs, index |-> i]
                 ELSE parseCTRLSeqCmds(sequences, i + subtitleCTRLSeqCmdAlphaChannelArgsLen,
                        [cs EXCEPT !.AlphaChannels =
                            Slice(sequences, i, i + subtitleCTRLSeqCmdAlphaChannelArgsLen)])
            [] cmd = subtitleCTRLSeqCmdCoordinates ->
                 IF i + subtitleCTRLSeqCmdCoordinatesArgsLen > Len(sequences)
                 THEN [err |-> "can not read coordinates command", cs |-> cs, index |-> i]
                 ELSE parseCTRLSeqCmds(sequences, i + subtitleCTRLSeqCmdCoordinatesArgsLen,
                        [cs EXCEPT !.Coordinates =
                            Slice(sequences, i, i + subtitleCTRLSeqCmdCoordinatesArgsLen)])
            [] cmd = subtitleCTRLSeqCmdRLEOffsets ->
                 IF i + subtitleCTRLSeqCmdRLEOffsetsArgsLen > Len(sequences)
                 THEN [err |-> "can not read RLE offsets command", cs |-> cs, index |-> i]
                 ELSE parseCTRLSeqCmds(sequences, i + subtitleCTRLSeqCmdRLEOffsetsArgsLen,
                        [cs EXCEPT !.RLEOffsets =
                            Slice(sequences, i, i + subtitleCTRLSeqCmdRLEOffsetsArgsLen)])
            [] cmd = subtitleCTRLSeqCmdEnd ->
                 [err |-> "nil", cs |-> cs, index |-> i]
            [] OTHER ->
                 [err |-> "unknown command", cs |-> cs, index |-> i]

\* parseCTRLSeq: one control sequence at the head of `sequences`
parseCTRLSeq(sequences) ==
    IF Len(sequences) < 4
    THEN [err |-> "can not parse sequence", cs |-> ZeroControlSequence,
          nextOffset |-> 0, index |-> 0]
    ELSE
      LET r == parseCTRLSeqCmds(sequences, 4,
                 [ZeroControlSequence EXCEPT !.Date = <<sequences[1], sequences[2]>>])
      IN  [err |-> r.err, cs |-> r.cs,
           nextOffset |-> BE16(sequences[3], sequences[4]), index |-> r.index]

\* the bytes after the last control sequence must be 0xff
PaddingOnly(sequences, from) ==
    \A i \in (from + 1)..Len(sequences) : sequences[i] = 255

\* the loop of parseCTRLSeqs at the Go index nextStart.  `visited` holds the
\* starts already parsed: the same bytes parse to the same next offset, so a
\* start met twice is met for ever and the loop never ends.
RECURSIVE parseCTRLSeqsFrom(_, _, _, _, _)
parseCTRLSeqsFrom(sequences, baseOffset, nextStart, ctrlSeqs, visited) ==
    IF nextStart < 0 \/ nextStart > Len(sequences)
    THEN [outcome |-> "panic", err |-> "slice bounds out of range", ctrlSeqs |-> ctrlSeqs]
    ELSE IF nextStart \in visited
    THEN [outcome |-> "hang", err |-> "nil", ctrlSeqs |-> ctrlSeqs]
    ELSE
      LET r == parseCTRLSeq(SliceFrom(sequences, nextStart))
      IN  IF r.err # "nil"
          THEN [outcome |-> "error", err |-> "failed to parse control seq",
                ctrlSeqs |-> ctrlSeqs]
          ELSE IF r.nextOffset - baseOffset = nextStart
          THEN IF PaddingOnly(sequences, nextStart + r.index)
               THEN [outcome |-> "ok", err |-> "nil", ctrlSeqs |-> Append(ctrlSeqs, r.cs)]
               ELSE [outcome |-> "error",
                     err |-> "control sequences post commands bytes are not padding",
                     ctrlSeqs |-> Append(ctrlSeqs, r.cs)]
          ELSE parseCTRLSeqsFrom(sequences, baseOffset, r.nextOffset - baseOffset,
                                 Append(ctrlSeqs, r.cs), visited \cup {nextStart})

parseCTRLSeqs(sequences, baseOffset) ==
    parseCTRLSeqsFrom(sequences, baseOffset, 0, <<>>, {})

\* the zero value of SubtitleRAW
\* Backing: the bytes of the array behind Data, from Data[0] to its capacity
ZeroSubtitleRAW == [Data |-> <<>>, Backing |-> <<>>, ControlSequences |-> <<>>]

\* extractRAWSubtitle, PESPacket.ExtractSubtitle in Decode
extractRAWSubtitle(Payload) ==
    IF Len(Payload) < 2
    THEN [outcome |-> "panic", err |-> "index out of range", subtitle |-> ZeroSubtitleRAW]
    ELSE IF BE16(Payload[1], Payload[2]) # Len(Payload)
    THEN [outcome |-> "error", err |-> "the packet size header value does not match",
          subtitle |-> ZeroSubtitleRAW]
    ELSE IF Len(Payload) < 4
    THEN [outcome |-> "panic", err |-> "index out of range", subtitle |-> ZeroSubtitleRAW]
    ELSE
      LET dataSize == BE16(Payload[3], Payload[4])
      IN  IF dataSize > Len(Payload) - subtitleHeaderLength
          THEN [outcome |-> "error", err |-> "the data packet size header value exceeds",
                subtitle |-> ZeroSubtitleRAW]
          ELSE IF dataSize < subtitleHeadersTotalLen
          THEN [outcome |-> "panic", err |-> "slice bounds out of range",
                subtitle |-> ZeroSubtitleRAW]
          ELSE
            LET r == parseCTRLSeqs(SliceFrom(Payload, dataSize), dataSize)
            IN  [outcome |-> r.outcome,
                 err |-> IF r.outcome = "error"
                         THEN "failed to parse control sequences" ELSE r.err,
                 subtitle |-> [Data |-> Slice(Payload, subtitleHeadersTotalLen, dataSize),
                               Backing |-> SliceFrom(Payload, subtitleHeadersTotalLen),
                               ControlSequences |-> r.ctrlSeqs]]

(***************************************************************************)
(* Control sequence arguments                                              *)
(***************************************************************************)
Second == 1000000000
Millisecond == 1000000

\* ControlSequenceDate.GetDelay
GetDelay(Date) == BE16(Date[1], Date[2]) * (Second \div 100)

\* ControlSequencePalette.GetIDs: colorsIdx[0..3] at the indices 1..4
GetIDs(csp) ==
    <<LowNibble(csp[2]), HighNibble(csp[2]), LowNibble(csp[1]), HighNibble(csp[1])>>

\* a variant of GetRatios with the four nibbles in the order of the bytes
GetRatiosInverted(csac) ==
    <<HighNibble(csac[1]), LowNibble(csac[1]), HighNibble(csac[2]), LowNibble(csac[2])>>

\* ControlSequenceAlphaChannels.GetRatios, in sixteenths: alphas[i] = nibble / 16
GetRatios(csac) ==
    <<LowNibble(csac[2]), HighNibble(csac[2]), LowNibble(csac[1]), HighNibble(csac[1])>>

\* ControlSequenceCoordinates.Get
CoordinatesGet(csc) ==
    [Point1 |-> [X |-> (csc[1] * 16) + HighNibble(csc[2]),
                 Y |-> (csc[4] * 16) + HighNibble(csc[5])],
     Point2 |-> [X |-> (LowNibble(csc[2]) * 256) + csc[3],
                 Y |-> (LowNibble(csc[5]) * 256) + csc[6]]]

\* SubtitleCoordinates.Size
Size(coord) ==
    [width |-> coord.Point2.X - coord.Point1.X + 1,
     height |-> coord.Point2.Y - coord.Point1.Y + 1]

\* ControlSequenceRLEOffsets.Get
RLEOffsetsGet(csrleo) ==
    [firstLineOffset |-> BE16(csrleo[1], csrleo[2]) - subtitleHeadersTotalLen,
     secondLineOffset |-> BE16(csrleo[3], csrleo[4]) - subtitleHeadersTotalLen]

(***************************************************************************)
(* Images: image.Rectangle, image.RGBA, draw.Draw                          *)
(***************************************************************************)
\* image.Rect: the rectangle is made well formed, Min <= Max
Rect(x0, y0, x1, y1) ==
    [Min |-> [X |-> IF x0 > x1 THEN x1 ELSE x0, Y |-> IF y0 > y1 THEN y1 ELSE y0],
     Max |-> [X |-> IF x0 > x1 THEN x0 ELSE x1, Y |-> IF y0 > y1 THEN y0 ELSE y1]]

\* Point.In(Rectangle): Min is inside, Max is outside
PointIn(px, py, r) ==
    r.Min.X <= px /\ px < r.Max.X /\ r.Min.Y <= py /\ py < r.Max.Y

Points(r) == {p \in (r.Min.X..(r.Max.X - 1)) \X (r.Min.Y..(r.Max.Y - 1)) : TRUE}

\* Rectangle.Dx, Rectangle.Dy
Dx(r) == r.Max.X - r.Min.X
Dy(r) == r.Max.Y - r.Min.Y

\* the zero colour, transparent black
ZeroRGBA == <<0, 0, 0, 0>>

\* image.NewRGBA: every pixel of the rectangle, zeroed
NewRGBA(r) == [Rect |-> r, Pix |-> [p \in Points(r) |-> ZeroRGBA]]

\* RGBA.Set: a point outside the rectangle is ignored
ImageSet(img, px, py, c) ==
    IF PointIn(px, py, img.Rect)
    THEN [img EXCEPT !.Pix[<<px, py>>] = c]
    ELSE img

\* draw.Draw(dst, r, src, image.Point{}, draw.Src): the point p of r, clipped to
\* dst and to src moved to r.Min, takes the pixel p - r.Min of src
DrawSrc(dst, r, src) ==
    [dst EXCEPT !.Pix =
        [p \in Points(dst.Rect) |->
            IF /\ PointIn(p[1], p[2], r)
               /\ PointIn(p[1] - r.Min.X, p[2] - r.Min.Y, src.Rect)
            THEN src.Pix[<<p[1] - r.Min.X, p[2] - r.Min.Y>>]
            ELSE dst.Pix[p]]]

(***************************************************************************)
(* Run-length decoding (part_004, second file)                             *)
(***************************************************************************)
\* nibbleIterator.Ended
Ended(data, ni) == ni.index >= Len(data)

\* a variant of NibbleNext that gives the low nibble of a byte before the high
NibbleNextLowFirst(data, ni) ==
    IF Ended(data, ni)
    THEN [nibble |-> 0, ok |-> FALSE, ni |-> ni]
    ELSE IF ~ni.readLow
    THEN [nibble |-> LowNibble(data[ni.index + 1]), ok |-> TRUE,
          ni |-> [ni EXCEPT !.readLow = TRUE]]
    ELSE [nibble |-> HighNibble(data[ni.index + 1]), ok |-> TRUE,
          ni |-> [index |-> ni.index + 1, readLow |-> FALSE]]

\* nibbleIterator.Next
NibbleNext(data, ni) ==
    IF Ended(data, ni)
    THEN [nibble |-> 0, ok |-> FALSE, ni |-> ni]
    ELSE IF ~ni.readLow
    THEN [nibble |-> HighNibble(data[ni.index + 1]), ok |-> TRUE,
          ni |-> [ni EXCEPT !.readLow = TRUE]]
    ELSE [nibble |-> LowNibble(data[ni.index + 1]), ok |-> TRUE,
          ni |-> [index |-> ni.index + 1, readLow |-> FALSE]]

\* a variant of Align that leaves the iterator where it is
AlignNot(ni) == ni

\* nibbleIterator.Align
Align(ni) ==
    IF ni.readLow THEN [index |-> ni.index + 1, readLow |-> FALSE] ELSE ni

ZeroRlePixel == [color |-> 0, repeat |-> 0]

\* decodeRLE
decodeRLE(data, ni0) ==
    LET n1 == NibbleNext(data, ni0)
        n2 == NibbleNext(data, n1.ni)
        n3 == NibbleNext(data, n2.ni)
        n4 == NibbleNext(data, n3.ni)
    IN  IF ~n1.ok
        THEN [err |-> "no more data", p |-> ZeroRlePixel, ni |-> n1.ni]
        ELSE IF n1.nibble \div 4 # 0
        THEN [err |-> "nil",
              p |-> [repeat |-> n1.nibble \div 4, color |-> n1.nibble % 4],
              ni |-> n1.ni]
        ELSE IF ~n2.ok
        THEN [err |-> IF n1.nibble # 0 THEN "missing second nibble" ELSE "nil",
              p |-> ZeroRlePixel, ni |-> n2.ni]
        ELSE IF n1.nibble # 0
        THEN [err |-> "nil",
              p |-> [repeat |-> ((n1.nibble % 4) * 4) + (n2.nibble \div 4),
                     color |-> n2.nibble % 4],
              ni |-> n2.ni]
        ELSE IF ~n3.ok
        THEN [err |-> IF n2.nibble # 0 THEN "missing third nibble" ELSE "nil",
              p |-> ZeroRlePixel, ni |-> n3.ni]
        ELSE IF n2.nibble \div 4 # 0
        THEN [err |-> "nil",
              p |-> [repeat |-> ((n2.nibble * 4) % 256) + (n3.nibble \div 4),
                     color |-> n3.nibble % 4],
              ni |-> n3.ni]
        ELSE IF ~n4.ok
        THEN [err |-> IF n2.nibble # 0 \/ n3.nibble # 0
                      THEN "missing fourth nibble" ELSE "nil",
              p |-> ZeroRlePixel, ni |-> n4.ni]
        ELSE [err |-> "nil",
              p |-> [repeat |-> ((n2.nibble * 64) % 256) + (n3.nibble * 4) + (n4.nibble \div 4),
                     color |-> n4.nibble % 4],
              ni |-> n4.ni]

\* the `for range length` loop of drawOddOrEvenLines: `left` pixels still to
\* plot.  newLine: the right edge was met; done: the bottom edge was passed.
RECURSIVE drawRun(_, _, _, _, _, _)
drawRun(img, c, left, relativeX, relativeY, ni) ==
    IF left <= 0
    THEN [img |-> img, relativeX |-> relativeX, relativeY |-> relativeY, ni |-> ni,
          done |-> FALSE]
    ELSE
      CHOOSE r \in
        { IF img.Rect.Min.X + relativeX = img.Rect.Max.X
          THEN IF img.Rect.Min.Y + relativeY + 2 > img.Rect.Max.Y
               THEN [img |-> set, relativeX |-> 0, relativeY |-> relativeY + 2,
                     ni |-> ni, done |-> TRUE]
               ELSE [img |-> set, relativeX |-> 0, relativeY |-> relativeY + 2,
                     ni |-> Align(ni), done |-> FALSE]
          ELSE drawRun(set, c, left - 1, relativeX + 1, relativeY, ni) :
            set \in {ImageSet(img, img.Rect.Min.X + relativeX,
                              img.Rect.Min.Y + relativeY, c)} } : TRUE

\* the `for !iter.Ended()` loop of drawOddOrEvenLines
RECURSIVE drawLines(_, _, _, _, _, _)
drawLines(img, palette, data, ni, relativeX, relativeY) ==
    IF Ended(data, ni)
    THEN [err |-> "nil", img |-> img]
    ELSE
      CHOOSE r \in
        { IF d.err # "nil"
          THEN [err |-> d.err, img |-> img]
          ELSE CHOOSE r2 \in
                 { IF run.done
                   THEN [err |-> "nil", img |-> run.img]
                   ELSE drawLines(run.img, palette, data, run.ni, run.relativeX,
                                  run.relativeY) :
                     run \in {drawRun(img, palette[d.p.color + 1],
                                      IF d.p.repeat = 0
                                      THEN img.Rect.Max.X - (img.Rect.Min.X + relativeX) + 1
                                      ELSE d.p.repeat,
                                      relativeX, relativeY, d.ni)} } : TRUE :
            d \in {decodeRLE(data, ni)} } : TRUE

\* a variant of drawOddOrEvenLines that starts on the first row for the even
\* lines too
drawOddOrEvenLinesFirstRow(img, palette, data, evenLines) ==
    drawLines(img, palette, data, [index |-> 0, readLow |-> FALSE], 0, 0)

\* drawOddOrEvenLines, with a fresh iterator over `data`
drawOddOrEvenLines(img, palette, data, evenLines) ==
    drawLines(img, palette, data, [index |-> 0, readLow |-> FALSE], 0,
              IF evenLines THEN 1 ELSE 0)

(***************************************************************************)
(* SubtitleRAW.Decode (part_004, second file)                              *)
(***************************************************************************)
\* the `for _, cs := range sr.ControlSequences` loop: the rendering metadata
ZeroPlan ==
    [startDelay |-> 0, stopDelay |-> 0, paletteColors |-> <<>>,
     alphaChannels |-> <<>>, coordinates |-> <<>>, RLEOffsets |-> <<>>]

ConsolidateOne(plan, cs) ==
    [startDelay |-> IF cs.StartDate THEN GetDelay(cs.Date) ELSE plan.startDelay,
     stopDelay |-> IF ~cs.StartDate /\ cs.StopDate
                   THEN GetDelay(cs.Date) ELSE plan.stopDelay,
     paletteColors |-> IF cs.PaletteColors # <<>>
                       THEN cs.PaletteColors ELSE plan.paletteColors,
     alphaChannels |-> IF cs.AlphaChannels # <<>>
                       THEN cs.AlphaChannels ELSE plan.alphaChannels,
     coordinates |-> IF cs.Coordinates # <<>> THEN cs.Coordinates ELSE plan.coordinates,
     RLEOffsets |-> IF cs.RLEOffsets # <<>> THEN cs.RLEOffsets ELSE plan.RLEOffsets]

RECURSIVE Consolidate(_, _, _)
Consolidate(ControlSequences, i, plan) ==
    IF i > Len(ControlSequences)
    THEN plan
    ELSE Consolidate(ControlSequences, i + 1, ConsolidateOne(plan, ControlSequences[i]))

\* "Adjust the palette": color.RGBA.RGBA() gives 16-bit channels, v | v<<8; the
\* alpha is scaled by the ratio and every channel cut to its low 8 bits
AdjustPalette(Palette, colorsIdx, alphaRatio) ==
    [i \in 1..4 |->
        LET c == Palette[colorsIdx[i] + 1]
        IN  <<(c[1] * 257) % 256, (c[2] * 257) % 256, (c[3] * 257) % 256,
              ((c[4] * 257 * alphaRatio[i]) \div 16) % 256>>]

NilImage == NewRGBA(Rect(0, 0, 0, 0))

\* a variant of PaletteAfterAdjust where the adjusted colours are written back
\* into the palette of the metadata
PaletteAfterAdjustInPlace(Palette, colorsIdx, alphaRatio) ==
    LET adjusted == AdjustPalette(Palette, colorsIdx, alphaRatio)
    IN  [k \in 1..Len(Palette) |->
            IF \E i \in 1..4 : colorsIdx[i] + 1 = k
            THEN adjusted[CHOOSE i \in 1..4 : colorsIdx[i] + 1 = k]
            ELSE Palette[k]]

\* metadata.Palette, a slice shared with the caller, after "Adjust the
\* palette": the loop reads it and writes the new `palette` only
PaletteAfterAdjust(Palette, colorsIdx, alphaRatio) == Palette

DecodeResult(outcome, err, img, plan) ==
    [outcome |-> outcome, err |-> err, img |-> img,
     startDelay |-> plan.startDelay, stopDelay |-> plan.stopDelay]

\* a variant of SubtitleImg where the image is two pixels larger than the
\* coordinates, to the right and to the bottom
SubtitleImgLarger(coord) ==
    NewRGBA(Rect(coord.Point1.X, coord.Point1.Y, coord.Point2.X + 2, coord.Point2.Y + 2))

\* the image of the subtitle alone: image.NewRGBA on the coordinates
SubtitleImg(coord) ==
    NewRGBA(Rect(coord.Point1.X, coord.Point1.Y, coord.Point2.X, coord.Point2.Y))

\* "Place the image within the full size screen"
FullSizeImg(metadata, subtitleImg) ==
    DrawSrc(NewRGBA(Rect(0, 0, metadata.Width, metadata.Height)),
            [Min |-> [X |-> metadata.Origin.X, Y |-> metadata.Origin.Y],
             Max |-> [X |-> metadata.Width, Y |-> metadata.Height]],
            subtitleImg)

SubtitleRAWDecode(sr, metadata, fullSize) ==
    LET plan == Consolidate(sr.ControlSequences, 1, ZeroPlan)
        palette == AdjustPalette(metadata.Palette, GetIDs(plan.paletteColors),
                                 GetRatios(plan.alphaChannels))
        coord == CoordinatesGet(plan.coordinates)
        off == RLEOffsetsGet(plan.RLEOffsets)
        odd == drawOddOrEvenLines(SubtitleImg(coord), palette,
                   Slice(sr.Backing, off.firstLineOffset, off.secondLineOffset), FALSE)
        even == drawOddOrEvenLines(odd.img, palette,
                   SliceFrom(sr.Data, off.secondLineOffset), TRUE)
    IN  IF plan.paletteColors = <<>>
        THEN DecodeResult("error", "missing palette colors ids in subtitle", NilImage, plan)
        ELSE IF plan.alphaChannels = <<>>
        THEN DecodeResult("error", "missing alpha channels ids in subtitle", NilImage, plan)
        ELSE IF plan.coordinates = <<>>
        THEN DecodeResult("error", "missing coordinates in subtitle", NilImage, plan)
        ELSE IF plan.RLEOffsets = <<>>
        THEN DecodeResult("error", "missing RLE offsets in subtitle", NilImage, plan)
        ELSE IF \/ off.firstLineOffset < 0
                \/ off.firstLineOffset > off.secondLineOffset
                \/ off.secondLineOffset > Len(sr.Backing)
        THEN DecodeResult("panic", "slice bounds out of range", NilImage, plan)
        ELSE IF odd.err # "nil"
        THEN DecodeResult("error", "failed to draw even lines", NilImage, plan)
        ELSE IF off.secondLineOffset > Len(sr.Data)
        THEN DecodeResult("panic", "slice bounds out of range", NilImage, plan)
        ELSE IF even.err # "nil"
        THEN DecodeResult("error", "failed to draw even lines", NilImage, plan)
        ELSE IF ~fullSize
        THEN DecodeResult("ok", "nil", even.img, plan)
        ELSE DecodeResult("ok", "nil", FullSizeImg(metadata, even.img), plan)

\* the metadata of the caller after SubtitleRAW.Decode: the palette is reached
\* once the four commands are known to be there
MetadataAfterDecode(sr, metadata) ==
    LET plan == Consolidate(sr.ControlSequences, 1, ZeroPlan)
    IN  IF \/ plan.paletteColors = <<>>
           \/ plan.alphaChannels = <<>>
           \/ plan.coordinates = <<>>
           \/ plan.RLEOffsets = <<>>
        THEN metadata
        ELSE [metadata EXCEPT !.Palette =
                 PaletteAfterAdjust(@, GetIDs(plan.paletteColors),
                                    GetRatios(plan.alphaChannels))]

(***************************************************************************)
(* The packets of the .sub stream (idx.go, def_pack.go, def_pes.go,        *)
(* part_005)                                                               *)
(***************************************************************************)
StartCodeMarker == 1
StreamIDPackHeader == 186
StreamIDPrivateStream1 == 189
StreamIDPaddingStream == 190
StreamIDProgramEnd == 185

pesExtensionDataPTSSize == 5
pesExtensionDataDTSSize == 5
pesExtensionDataESCRSize == 6
pesExtensionDataESRateSize == 3
pesExtensionDataCRCSize == 2
pesExtensionDataPrivateDataSize == 16
pesExtensionDataProgramPacketSequenceCounterSize == 2
pesExtensionDataPSTDBufferSize == 2
pesExtensionDataSecondExtensionSize == 2

\* io.ReaderAt.ReadAt of an os.File: the n bytes at the offset off, or the
\* bytes there are before the end of the file, with io.EOF
ReadAt(stream, n, off) ==
    IF off + n <= Len(stream)
    THEN [data |-> Slice(stream, off, off + n), err |-> "nil"]
    ELSE [data |-> IF off >= Len(stream) THEN <<>> ELSE SliceFrom(stream, off),
          err |-> "EOF"]

\* MPEGHeader.Validate: the start code marker 00 00 01
MPEGHeaderValidate(mph) ==
    (mph[1] * 65536) + (mph[2] * 256) + mph[3] = StartCodeMarker

\* PackHeader.ProgramMuxRate
ProgramMuxRate(Remaining) ==
    (Remaining[7] * 16384) + (Remaining[8] * 64) + (Remaining[9] \div 4)

\* PackHeader.Validate, MPH validated and a pack header by the caller
PackHeaderValidate(Remaining) ==
    /\ Remaining[1] \div 64 = 1
    /\ Bit(Remaining[1], 2) = 1
    /\ Bit(Remaining[3], 2) = 1
    /\ Bit(Remaining[5], 2) = 1
    /\ Bit(Remaining[6], 0) = 1
    /\ Remaining[9] % 4 = 3
    /\ ProgramMuxRate(Remaining) # 0

\* PackHeader.StuffingBytesLength
StuffingBytesLength(Remaining) == Remaining[10] % 8

\* PESHeader.GetPacketLength
GetPacketLength(PacketLength) == BE16(PacketLength[1], PacketLength[2])

\* PESExtension.RemainingHeaderLength
RemainingHeaderLength(Header) == Header[3]

\* the zero value of PESExtensionData; a nil slice or pointer is the empty
\* sequence, a pointer to a byte a sequence of one byte
ZeroPESExtensionData ==
    [PTS |-> <<>>, DTS |-> <<>>, ESCR |-> <<>>, ESRate |-> <<>>,
     AdditionalCopyInfo |-> <<>>, PreviousPacketCRC |-> <<>>, PrivateData |-> <<>>,
     PackHeaderField |-> <<>>, ProgramPacketSequenceCounter |-> <<>>, PSTD |-> <<>>,
     PESExtensionSecond |-> <<>>]

\* the steps of ParsePESExtensionData, in the order of the code.  "bytes":
\* `size` bytes copied to `field` when the bit `bit` of the flags (Header[1])
\* is set; "copyInfo": the additional copy info; "flags2": the flags byte of
\* the second extension; "bytes2": `size` bytes copied to `field` when the bit
\* `bit` of that byte is set; "fixed": its fixed bits; "extension2": the PES
\* extension 2
ExtensionSteps ==
    << [kind |-> "bytes", bit |-> 7, size |-> pesExtensionDataPTSSize, field |-> "PTS"],
       [kind |-> "bytes", bit |-> 6, size |-> pesExtensionDataDTSSize, field |-> "DTS"],
       [kind |-> "bytes", bit |-> 5, size |-> pesExtensionDataESCRSize, field |-> "ESCR"],
       [kind |-> "bytes", bit |-> 4, size |-> pesExtensionDataESRateSize,
        field |-> "ESRate"],
       [kind |-> "copyInfo", bit |-> 2, size |-> 1, field |-> "AdditionalCopyInfo"],
       [kind |-> "bytes", bit |-> 1, size |-> pesExtensionDataCRCSize,
        field |-> "PreviousPacketCRC"],
       [kind |-> "flags2", bit |-> 0, size |-> 1, field |-> "headers"],
       [kind |-> "bytes2", bit |-> 7, size |-> pesExtensionDataPrivateDataSize,
        field |-> "PrivateData"],
       [kind |-> "bytes2", bit |-> 6, size |-> 1, field |-> "PackHeaderField"],
       [kind |-> "bytes2", bit |-> 5,
        size |-> pesExtensionDataProgramPacketSequenceCounterSize,
        field |-> "ProgramPacketSequenceCounter"],
       [kind |-> "bytes2", bit |-> 4, size |-> pesExtensionDataPSTDBufferSize,
        field |-> "PSTD"],
       [kind |-> "fixed", bit |-> 1, size |-> 0, field |-> "headers"],
       [kind |-> "extension2", bit |-> 0, size |-> pesExtensionDataSecondExtensionSize,
        field |-> "PESExtensionSecond"] >>

\* the PES extension 2 of ParsePESExtensionData, its two bytes of header at
\* st.index: a slice of additionnalDataLen zero bytes is made for
\* Data.PESExtensionSecond and the bytes of the data are copied one by one
\* into Data.PSTD, two bytes long when the P-STD flag is set and nil otherwise
ExtensionSecond(data, st, size) ==
    LET additionnalDataLen == data[st.index + 1] % 128
        from == st.index + size
    IN  IF \/ additionnalDataLen > Len(st.Data.PSTD)
           \/ from + additionnalDataLen > Len(data)
        THEN [st EXCEPT !.outcome = "panic", !.index = from,
                        !.Data.PESExtensionSecond =
                            [i \in 1..additionnalDataLen |-> 0]]
        ELSE [st EXCEPT !.index = from + additionnalDataLen,
                        !.Data.PESExtensionSecond =
                            [i \in 1..additionnalDataLen |-> 0],
                        !.Data.PSTD =
                            [i \in 1..Len(@) |-> IF i <= additionnalDataLen
                                                 THEN data[from + i] ELSE @[i]]]

\* one step of ParsePESExtensionData from the state st: outcome ("ok", "error"
\* or "panic"), index, the flags byte of the second extension, the Data of the
\* extension, and done, set by the return of the code when there is no second
\* extension.  Reading data[i] with i >= len(data) is an index out of range.
ExtensionStep(flags, data, st, step) ==
    IF st.outcome # "ok" \/ st.done
    THEN st
    ELSE CASE step.kind = "bytes" ->
                IF Bit(flags, step.bit) # 1
                THEN st
                ELSE IF st.index + step.size > Len(data)
                THEN [st EXCEPT !.outcome = "panic"]
                ELSE [st EXCEPT !.index = @ + step.size,
                                !.Data[step.field] =
                                    Slice(data, st.index, st.index + step.size)]
           [] step.kind = "copyInfo" ->
                IF Bit(flags, step.bit) # 1
                THEN st
                ELSE IF st.index >= Len(data)
                THEN [st EXCEPT !.outcome = "panic"]
                ELSE IF Bit(data[st.index + 1], 7) # 1
                THEN [st EXCEPT !.outcome = "error"]
                ELSE [st EXCEPT !.index = @ + 1,
                                !.Data[step.field] = <<data[st.index + 1] % 128>>]
           [] step.kind = "flags2" ->
                IF Bit(flags, step.bit) # 1
                THEN [st EXCEPT !.done = TRUE]
                ELSE IF st.index >= Len(data)
                THEN [st EXCEPT !.outcome = "panic"]
                ELSE [st EXCEPT !.headers = data[st.index + 1], !.index = @ + 1]
           [] step.kind = "bytes2" ->
                IF Bit(st.headers, step.bit) # 1
                THEN st
                ELSE IF st.index + step.size > Len(data)
                THEN [st EXCEPT !.outcome = "panic"]
                ELSE [st EXCEPT !.index = @ + step.size,
                                !.Data[step.field] =
                                    Slice(data, st.index, st.index + step.size)]
           [] step.kind = "fixed" ->
                IF (st.headers \div 2) % 8 # 7
                THEN [st EXCEPT !.outcome = "error"]
                ELSE st
           [] step.kind = "extension2" ->
                IF Bit(st.headers, step.bit) # 1
                THEN st
                ELSE IF st.index + step.size > Len(data)
                THEN [st EXCEPT !.outcome = "panic"]
                ELSE ExtensionSecond(data, st, step.size)

\* the steps of ParsePESExtensionData from the i-th
RECURSIVE ExtensionStepsFrom(_, _, _, _)
ExtensionStepsFrom(flags, data, st, i) ==
    IF i > Len(ExtensionSteps)
    THEN st
    ELSE ExtensionStepsFrom(flags, data,
                            ExtensionStep(flags, data, st, ExtensionSteps[i]), i + 1)

\* PESExtension.ParsePESExtensionData: Header is the three bytes of the
\* extension header, data the extension data
ParsePESExtensionData(Header, data) ==
    IF Len(data) # RemainingHeaderLength(Header)
    THEN [outcome |-> "error", index |-> 0, PTS |-> <<>>,
          Data |-> ZeroPESExtensionData]
    ELSE
      LET st == ExtensionStepsFrom(Header[2], data,
                    [outcome |-> "ok", index |-> 0, headers |-> 0, done |-> FALSE,
                     Data |-> ZeroPESExtensionData], 1)
      IN  [outcome |-> st.outcome, index |-> st.index,
           PTS |-> IF Bit(Header[2], 7) = 1 /\ Len(data) >= pesExtensionDataPTSSize
                   THEN Slice(data, 0, pesExtensionDataPTSSize) ELSE <<>>,
           Data |-> st.Data]

\* PESHeader.ParseExtensionData: the bytes left after the fields are padding
ParseExtensionData(Header, data) ==
    LET r == ParsePESExtensionData(Header, data)
    IN  IF r.outcome = "ok" /\ \E i \in (r.index + 1)..Len(data) : data[i] # 255
        THEN [r EXCEPT !.outcome = "error"]
        ELSE r

\* the zero value of PESPacket
ZeroPacket == [StreamID |-> 0, PTS |-> <<>>, SubStreamID |-> 0, Payload |-> <<>>]

\* what a parsing function returns: how it ended ("ok", "error" or "panic"),
\* the packet, the position of the next packet and the error
ParseResult(outcome, packet, nextAt, err) ==
    [outcome |-> outcome, packet |-> packet, nextAt |-> nextAt, err |-> err]

\* the payload of streamParsePESPrivateStream1Packet, the headers read
PrivateStream1Payload(stream, currentPosition, PacketLength, extension, ssid) ==
    LET payloadLen == GetPacketLength(PacketLength) - 3 - Len(extension.data) - 1
    IN  IF payloadLen < 0
        THEN ParseResult("panic", ZeroPacket, 0, "makeslice: len out of range")
        ELSE
          \* ReadAt fills no buffer of length 0 and meets no end of file
          LET payload == ReadAt(stream, payloadLen, currentPosition)
          IN  IF payloadLen > 0 /\ payload.err # "nil"
              THEN ParseResult("error", ZeroPacket, 0, "failed to read the payload")
              ELSE ParseResult("ok",
                               [StreamID |-> StreamIDPrivateStream1,
                                PTS |-> extension.PTS,
                                SubStreamID |-> ssid,
                                Payload |-> payload.data],
                               0, "nil")

\* the extension data and the sub stream id of
\* streamParsePESPrivateStream1Packet, the extension header read
PrivateStream1Extension(stream, currentPosition, PacketLength, Header) ==
    LET n == RemainingHeaderLength(Header)
        extensionData == ReadAt(stream, n, currentPosition)
        parsed == ParseExtensionData(Header, extensionData.data)
        ssid == ReadAt(stream, 1, currentPosition + n)
    IN  IF n > 0 /\ extensionData.err # "nil"
        THEN ParseResult("error", ZeroPacket, 0, "failed to read PES extension data")
        ELSE IF parsed.outcome = "panic"
        THEN ParseResult("panic", ZeroPacket, 0, "index out of range")
        ELSE IF parsed.outcome = "error"
        THEN ParseResult("error", ZeroPacket, 0, "failed to parse extension header data")
        ELSE IF ssid.err # "nil"
        THEN ParseResult("error", ZeroPacket, 0, "failed to read sub stream id")
        ELSE PrivateStream1Payload(stream, currentPosition + n + 1, PacketLength,
                                   [data |-> extensionData.data, PTS |-> parsed.PTS],
                                   ssid.data[1])

\* streamParsePESPrivateStream1Packet
streamParsePESPrivateStream1Packet(stream, currentPosition, PacketLength) ==
    LET Header == ReadAt(stream, 3, currentPosition)
    IN  IF Header.err # "nil"
        THEN ParseResult("error", ZeroPacket, 0, "failed to read PES extension header")
        ELSE PrivateStream1Extension(stream, currentPosition + 3, PacketLength,
                                     Header.data)

\* parsePESHeader
parsePESHeader(stream, currentPosition) ==
    LET MPH == ReadAt(stream, 4, currentPosition)
        PacketLength == ReadAt(stream, 2, currentPosition + 4)
        nextPacketPosition == currentPosition + 6 + GetPacketLength(PacketLength.data)
    IN  IF MPH.err # "nil"
        THEN ParseResult("error", ZeroPacket, 0, "failed to read PES header")
        ELSE IF ~MPEGHeaderValidate(MPH.data)
        THEN ParseResult("error", ZeroPacket, 0, "invalid PES header: invalid start code")
        ELSE IF PacketLength.err # "nil"
        THEN ParseResult("error", ZeroPacket, 0,
                         "failed to read PES Packet Length header")
        ELSE IF MPH.data[4] = StreamIDPrivateStream1
        THEN LET r == streamParsePESPrivateStream1Packet(stream, currentPosition + 6,
                                                         PacketLength.data)
             IN  IF r.outcome = "ok"
                 THEN ParseResult("ok", r.packet, nextPacketPosition, "nil")
                 ELSE IF r.outcome = "panic"
                 THEN r
                 ELSE ParseResult("error", ZeroPacket, nextPacketPosition,
                                  "failed to parse subtitle stream (private stream 1) packet")
        ELSE ParseResult("error", ZeroPacket, nextPacketPosition,
                         "unexpected PES Stream ID")

\* streamParsePackHeader
streamParsePackHeader(stream, currentPosition) ==
    LET Remaining == ReadAt(stream, 10, currentPosition)
    IN  IF Remaining.err # "nil"
        THEN ParseResult("error", ZeroPacket, 0, "failed to read pack header")
        ELSE IF ~PackHeaderValidate(Remaining.data)
        THEN ParseResult("error", ZeroPacket, 0, "invalid pack header")
        ELSE parsePESHeader(stream,
                 currentPosition + 10 + StuffingBytesLength(Remaining.data))

\* a variant of streamParsePaddingStream that gives as next position the
\* position of the start code of the padding packet
streamParsePaddingStreamStay(stream, currentPosition) ==
    LET PacketLength == ReadAt(stream, 2, currentPosition)
    IN  IF PacketLength.err # "nil"
        THEN ParseResult("error", ZeroPacket, 0,
                         "failed to read PES Packet Length header")
        ELSE ParseResult("ok", ZeroPacket, currentPosition - 4, "nil")

\* streamParsePaddingStream
streamParsePaddingStream(stream, currentPosition) ==
    LET PacketLength == ReadAt(stream, 2, currentPosition)
    IN  IF PacketLength.err # "nil"
        THEN ParseResult("error", ZeroPacket, 0,
                         "failed to read PES Packet Length header")
        ELSE ParseResult("ok", ZeroPacket,
                         currentPosition + 2 + GetPacketLength(PacketLength.data), "nil")

\* the switch of StreamParsePacket on the stream ID of the header read
StreamParseDispatch(stream, currentPosition, mph) ==
    IF ~MPEGHeaderValidate(mph)
    THEN ParseResult("error", ZeroPacket, 0, "invalid MPEG header")
    ELSE IF mph[4] = StreamIDPackHeader
    THEN LET r == streamParsePackHeader(stream, currentPosition)
         IN  IF r.outcome = "error"
             THEN ParseResult("error", ZeroPacket, r.nextAt, "failed to parse Pack Header")
             ELSE r
    ELSE IF mph[4] = StreamIDPaddingStream
    THEN LET r == streamParsePaddingStream(stream, currentPosition)
         IN  IF r.outcome = "error"
             THEN ParseResult("error", ZeroPacket, r.nextAt,
                              "failed to parse padding stream")
             ELSE r
    ELSE IF mph[4] = StreamIDProgramEnd
    THEN ParseResult("ok", ZeroPacket, -1, "nil")
    ELSE ParseResult("error", ZeroPacket, 0, "unexpected stream ID")

\* a variant of StreamParsePacket where the end of the file is an error
StreamParsePacketEOFError(stream, currentPosition) ==
    LET mph == ReadAt(stream, 4, currentPosition)
    IN  IF mph.err # "nil"
        THEN ParseResult("error", ZeroPacket, 0, "failed to read start code header")
        ELSE StreamParseDispatch(stream, currentPosition + 4, mph.data)

\* StreamParsePacket: the end of the file met while reading the four bytes of
\* the header, none or some of them read, is no error
StreamParsePacket(stream, currentPosition) ==
    LET mph == ReadAt(stream, 4, currentPosition)
    IN  IF mph.err # "nil"
        THEN ParseResult("ok", ZeroPacket, -1, "nil")
        ELSE StreamParseDispatch(stream, currentPosition + 4, mph.data)

(***************************************************************************)
(* PES packets (def_pes.go)                                                *)
(***************************************************************************)
PTSDTSClockFrequency == 90000
SubStreamIDBaseValue == 32

\* SubStreamID.SubtitleID
SubtitleID(ssid) == ssid - SubStreamIDBaseValue

\* uint64 values are too wide for the integers of the model checker: they are
\* kept as NbLimbs digits in base LimbBase, the lowest first
LimbBase == 10000
NbLimbs == 6

\* the limbs of an integer n >= 0 of the model checker
ToLimbs(n) ==
    <<n % LimbBase, (n \div LimbBase) % LimbBase, n \div (LimbBase * LimbBase), 0, 0, 0>>

\* the integer of limbs that make a value below 2^31
LimbsToInt(x) == x[1] + (x[2] * LimbBase) + (x[3] * LimbBase * LimbBase)

\* x * k for an integer 0 <= k <= 100000, from the limb i with a carry
RECURSIVE MulSmallFrom(_, _, _, _)
MulSmallFrom(x, k, i, carry) ==
    IF i > NbLimbs
    THEN <<>>
    ELSE <<((x[i] * k) + carry) % LimbBase>>
            \o MulSmallFrom(x, k, i + 1, ((x[i] * k) + carry) \div LimbBase)

MulSmall(x, k) == MulSmallFrom(x, k, 1, 0)

\* x + y, from the limb i with a carry
RECURSIVE AddFrom(_, _, _, _)
AddFrom(x, y, i, carry) ==
    IF i > NbLimbs
    THEN <<>>
    ELSE <<(x[i] + y[i] + carry) % LimbBase>>
            \o AddFrom(x, y, i + 1, (x[i] + y[i] + carry) \div LimbBase)

Add(x, y) == AddFrom(x, y, 1, 0)

\* x - y for x >= y, from the limb i with a borrow
RECURSIVE SubFrom(_, _, _, _)
SubFrom(x, y, i, borrow) ==
    IF i > NbLimbs
    THEN <<>>
    ELSE <<(x[i] - y[i] - borrow + LimbBase) % LimbBase>>
            \o SubFrom(x, y, i + 1, IF x[i] - y[i] - borrow < 0 THEN 1 ELSE 0)

\* x < y
Less(x, y) ==
    \E i \in 1..NbLimbs : x[i] < y[i] /\ \A j \in (i + 1)..NbLimbs : x[j] = y[j]

\* x / d for an integer 0 < d <= 100000: the limbs 1..i of the quotient, rem
\* the remainder of the limbs above
RECURSIVE DivSmallFrom(_, _, _, _)
DivSmallFrom(x, d, i, rem) ==
    IF i = 0
    THEN <<>>
    ELSE Append(DivSmallFrom(x, d, i - 1, ((rem * LimbBase) + x[i]) % d),
                ((rem * LimbBase) + x[i]) \div d)

DivSmall(x, d) == DivSmallFrom(x, d, NbLimbs, 0)

\* 2^64
TwoTo64 == <<1616, 955, 737, 6744, 1844, 0>>

\* a product of uint64 values, cut to 64 bits
RECURSIVE Wrap64(_)
Wrap64(x) == IF Less(x, TwoTo64) THEN x ELSE Wrap64(SubFrom(x, TwoTo64, 1, 0))

\* a variant of Ticks64 where bit 3 of the first byte is left out
Ticks64NoTopBit(PTS) ==
    Add(MulSmall(ToLimbs(2 ^ 30), (PTS[1] % 8) \div 2),
        ToLimbs((PTS[2] * (2 ^ 22)) + ((PTS[3] \div 2) * (2 ^ 15))
                + (PTS[4] * (2 ^ 7)) + (PTS[5] \div 2)))

\* the 33 bit tick count of PESExtensionData.ComputePTS; the bits below 2^30
\* make an integer below 2^30
Ticks64(PTS) ==
    Add(MulSmall(ToLimbs(2 ^ 30), (PTS[1] % 16) \div 2),
        ToLimbs((PTS[2] * (2 ^ 22)) + ((PTS[3] \div 2) * (2 ^ 15))
                + (PTS[4] * (2 ^ 7)) + (PTS[5] \div 2)))

\* ticks * uint64(time.Second): 10^9 is 1000 * 1000 * 1000
TicksBySecond(PTS) == MulSmall(MulSmall(MulSmall(Ticks64(PTS), 1000), 1000), 1000)

\* PESExtensionData.ComputePTS as limbs: ticks * uint64(time.Second) /
\* PTSDTSClockFrequency in uint64; no PTS gives 0
ComputePTS64(PTS) ==
    IF Len(PTS) = 0
    THEN ToLimbs(0)
    ELSE DivSmall(Wrap64(TicksBySecond(PTS)), PTSDTSClockFrequency)

\* PESExtensionData.ComputePTS, for the durations below 2^31 ns
ComputePTS(PTS) == LimbsToInt(ComputePTS64(PTS))

(***************************************************************************)
(* Inputs of Decode: the metadata of the .idx file and the private stream  *)
(* 1 packets that ReadSubFile returns                                      *)
(***************************************************************************)
\* the most packets of a .sub file
MaxPackets == 3
\* the most units in a file
MaxUnits == 3

\* a 16 colours palette as parseIdx builds it, each with the main alpha
IdxPalette(mainAlpha) == [i \in 1..16 |-> <<(i - 1) * 16, i - 1, 255 - i, mainAlpha>>]

Metadatas ==
    { [Width |-> 6, Height |-> 4, Origin |-> [X |-> 0, Y |-> 0], TimeOffset |-> 0,
       Palette |-> IdxPalette(255)],
      [Width |-> 6, Height |-> 4, Origin |-> [X |-> 1, Y |-> 1],
       TimeOffset |-> 500 * Millisecond, Palette |-> IdxPalette(255)] }

\* a subpicture unit: size, data size, pixel data and control sequences
SPU(pixels, controls) ==
    <<0, 4 + Len(pixels) + Len(controls), 0, 4 + Len(pixels)>> \o pixels \o controls

\* two lines of pixels: a run of 4 of colour 1 (odd), a run of 4 of colour 2 (even)
PixelData == <<17, 18>>

\* the commands palette, alpha, coordinates (x 1..4, y 1..2) and RLE offsets
CmdPalette == <<3, 50, 16>>
CmdAlpha == <<4, 255, 240>>
CmdCoordinates == <<5, 0, 16, 4, 0, 16, 2>>
CmdRLEOffsets == <<6, 0, 4, 0, 5>>

\* a control sequence
CtrlSeq(date, next, commands) == <<0, date, 0, next>> \o commands \o <<255>>

\* start at 0, stop after 100 ms
PayloadFull ==
    SPU(PixelData,
        CtrlSeq(0, 30, CmdPalette \o CmdAlpha \o CmdCoordinates \o CmdRLEOffsets \o <<1>>)
        \o CtrlSeq(10, 30, <<2>>))
\* no stop date
PayloadNoStop ==
    SPU(PixelData,
        CtrlSeq(0, 6, CmdPalette \o CmdAlpha \o CmdCoordinates \o CmdRLEOffsets \o <<1>>))
\* a byte that is not padding after the last control sequence
PayloadBadPadding ==
    SPU(PixelData,
        CtrlSeq(0, 30, CmdPalette \o CmdAlpha \o CmdCoordinates \o CmdRLEOffsets \o <<1>>)
        \o CtrlSeq(10, 30, <<2>>) \o <<0, 254>>)
\* no palette command
PayloadNoPalette ==
    SPU(PixelData,
        CtrlSeq(0, 27, CmdAlpha \o CmdCoordinates \o CmdRLEOffsets \o <<1>>)
        \o CtrlSeq(10, 27, <<2>>))
\* one control sequence of date 50 ms with the start and the stop command
PayloadStartStop ==
    SPU(PixelData,
        CtrlSeq(5, 6, CmdPalette \o CmdAlpha \o CmdCoordinates \o CmdRLEOffsets
                      \o <<1, 2>>))
\* no stop date, and a start date of 200 ms
PayloadLateStart ==
    SPU(PixelData,
        CtrlSeq(20, 6, CmdPalette \o CmdAlpha \o CmdCoordinates \o CmdRLEOffsets \o <<1>>))
\* the two parts of PayloadFull, split between two packets
PayloadPart1 == SubSeq(PayloadFull, 1, 20)
PayloadPart2 == SubSeq(PayloadFull, 21, Len(PayloadFull))
\* two bytes only
PayloadShort == <<0, 2>>

\* the five PTS bytes of a tick count below 2^15, marker bits set
PTSBytes(ticks) == <<33, 0, 1, ticks \div 128, ((ticks % 128) * 2) + 1>>

\* 100 ms and 220 ms
PTS100 == PTSBytes(9000)
PTS220 == PTSBytes(19800)

\* PESPacket, with the fields ReadSubFile and Decode read: Header.MPH.StreamID(),
\* Header.Extension.Data.PTS, Header.SubStreamID and Payload
Packet(PTS, ssid, Payload) ==
    [StreamID |-> StreamIDPrivateStream1, PTS |-> PTS, SubStreamID |-> ssid,
     Payload |-> Payload]

PacketLibrary ==
    { Packet(PTS100, 32, PayloadFull),
      Packet(PTS220, 32, PayloadFull),
      Packet(PTS100, 32, PayloadNoStop),
      Packet(PTS100, 33, PayloadNoStop),
      Packet(PTS220, 33, PayloadFull),
      Packet(PTS100, 32, PayloadBadPadding),
      Packet(PTS100, 32, PayloadNoPalette),
      Packet(PTS220, 32, PayloadStartStop),
      Packet(PTS100, 32, PayloadLateStart),
      Packet(PTS100, 32, PayloadPart1),
      Packet(<<>>, 32, PayloadPart2),
      Packet(<<>>, 33, PayloadPart2),
      Packet(PTS100, 32, PayloadShort) }

PacketLists == UNION { [1..n -> PacketLibrary] : n \in 0..MaxPackets }

(***************************************************************************)
(* Decode (part_010, third file)                                           *)
(***************************************************************************)
VARIABLES
    metadata,               \* IdxMetadata, from ReadIdxFile
    fullSizeImages,         \* the argument of Decode
    privateStream1Packets,  \* from ReadSubFile
    pc,                     \* the loop Decode is in: "concat", "decode", "postpass"
    outcome,                \* "running", then how Decode ended: "returned",
                            \* "panic" or "hang"
    index,                  \* the Go index of the running loop
    subtitlesPackets,       \* the packets, split subtitles joined
    subtitles,              \* stream ID -> []Subtitle
    skippedBadSub,          \* the packet number and error of each skipped packet
    err,                    \* the error Decode returns, "nil" for none
    fixed,                  \* post-pass: the stream IDs already ranged over
    stream,                 \* ReadSubFile: the bytes of the .sub file
    nextAt,                 \* ReadSubFile: the position of the next packet
    readPackets,            \* ReadSubFile: the private stream 1 packets read
    readErr,                \* ReadSubFile: the error returned, "nil" for none
    readOutcome,            \* ReadSubFile: "running", "returned" or "panic"
    walkLog,                \* the calls of StreamParsePacket made on the file, each
                            \* with its position and what it returned
    fnCall,                 \* a call of one function alone: its name and arguments
    fnResult                \* what that call returned

decodeVars == <<metadata, fullSizeImages, privateStream1Packets, pc, outcome, index,
                subtitlesPackets, subtitles, skippedBadSub, err, fixed>>

readVars == <<stream, nextAt, readPackets, readErr, readOutcome, walkLog>>

fnVars == <<fnCall, fnResult>>

vars == <<decodeVars, readVars, fnVars>>

\* no function is called alone
NoCall == [fn |-> "none"]
NoResult == [outcome |-> "none"]

inputs == <<metadata, fullSizeImages, privateStream1Packets>>

\* the map with key id set to value v
MapSet(m, id, v) == [k \in DOMAIN m \cup {id} |-> IF k = id THEN v ELSE m[k]]

EmptyMap == [k \in {} |-> <<>>]

Init ==
    /\ metadata \in Metadatas
    /\ fullSizeImages \in BOOLEAN
    /\ privateStream1Packets \in PacketLists
    /\ pc = "concat"
    /\ outcome = "running"
    /\ index = 0
    /\ subtitlesPackets = <<>>
    /\ subtitles = EmptyMap
    /\ skippedBadSub = <<>>
    /\ err = "nil"
    /\ fixed = {}
    /\ stream = <<>>
    /\ nextAt = 0
    /\ readPackets = <<>>
    /\ readErr = "nil"
    /\ readOutcome = "returned"
    /\ walkLog = {}
    /\ fnCall = NoCall
    /\ fnResult = NoResult

\* a variant of ConcatOne where a continuation opens a packet of its own
ConcatOneNoJoin(packets, pkt) ==
    [outcome |-> "ok", packets |-> Append(packets, pkt)]

\* "Concat splitted packets": one iteration
ConcatOne(packets, pkt) ==
    IF ComputePTS(pkt.PTS) # 0
    THEN [outcome |-> "ok", packets |-> Append(packets, pkt)]
    ELSE IF Len(packets) = 0
    THEN [outcome |-> "panic", packets |-> packets]
    ELSE [outcome |-> "ok",
          packets |-> [packets EXCEPT ![Len(packets)].Payload = @ \o pkt.Payload]]

Concat ==
    /\ pc = "concat"
    /\ outcome = "running"
    /\ index < Len(privateStream1Packets)
    /\ LET r == ConcatOne(subtitlesPackets, privateStream1Packets[index + 1])
       IN  /\ subtitlesPackets' = r.packets
           /\ outcome' = IF r.outcome = "ok" THEN "running" ELSE r.outcome
           /\ index' = IF r.outcome = "ok" THEN index + 1 ELSE index
    /\ UNCHANGED <<readVars, fnVars>>
    /\ UNCHANGED <<inputs, pc, subtitles, skippedBadSub, err, fixed>>

ConcatDone ==
    /\ pc = "concat"
    /\ outcome = "running"
    /\ index = Len(privateStream1Packets)
    /\ pc' = "decode"
    /\ index' = 0
    /\ UNCHANGED <<readVars, fnVars>>
    /\ UNCHANGED <<inputs, outcome, subtitlesPackets, subtitles, skippedBadSub, err,
                   fixed>>

\* the Subtitle of a decoded packet
NewSubtitle(md, subPkt, dec) ==
    [Start |-> md.TimeOffset + ComputePTS(subPkt.PTS) + dec.startDelay,
     Stop |-> md.TimeOffset + ComputePTS(subPkt.PTS) + dec.stopDelay,
     Image |-> dec.img]

\* a variant of DecodeOne where an extraction error ends Decode
DecodeOneParseFatal ==
    /\ pc = "decode"
    /\ outcome = "running"
    /\ index < Len(subtitlesPackets)
    /\ LET subPkt == subtitlesPackets[index + 1]
           id == SubtitleID(subPkt.SubStreamID)
           streamSubs == IF id \in DOMAIN subtitles THEN subtitles[id] ELSE <<>>
       IN  \E ex \in {extractRAWSubtitle(subPkt.Payload)} :
           \E dec \in {IF ex.outcome = "ok"
                        THEN SubtitleRAWDecode(ex.subtitle, metadata, fullSizeImages)
                        ELSE DecodeResult("error", "nil", NilImage, ZeroPlan)} :
           IF ex.outcome # "ok" \/ dec.outcome = "error"
           THEN /\ err' = "failed to decode subtitle"
                /\ outcome' = "returned"
                /\ UNCHANGED <<index, subtitles, skippedBadSub>>
           ELSE IF dec.outcome # "ok"
           THEN /\ outcome' = dec.outcome
                /\ UNCHANGED <<index, subtitles, skippedBadSub, err>>
           ELSE /\ subtitles' = MapSet(subtitles, id,
                                  Append(streamSubs, NewSubtitle(metadata, subPkt, dec)))
                /\ index' = index + 1
                /\ UNCHANGED <<outcome, skippedBadSub, err>>
    /\ UNCHANGED <<readVars, fnVars>>
    /\ UNCHANGED <<inputs, pc, subtitlesPackets, fixed>>

\* a variant of DecodeOne where a rendering error is skipped like an extraction
\* error
DecodeOneSkipRender ==
    /\ pc = "decode"
    /\ outcome = "running"
    /\ index < Len(subtitlesPackets)
    /\ LET subPkt == subtitlesPackets[index + 1]
           id == SubtitleID(subPkt.SubStreamID)
           streamSubs == IF id \in DOMAIN subtitles THEN subtitles[id] ELSE <<>>
       IN  \E ex \in {extractRAWSubtitle(subPkt.Payload)} :
           \E dec \in {IF ex.outcome = "ok"
                        THEN SubtitleRAWDecode(ex.subtitle, metadata, fullSizeImages)
                        ELSE DecodeResult("error", "nil", NilImage, ZeroPlan)} :
           IF ex.outcome = "error" \/ (ex.outcome = "ok" /\ dec.outcome = "error")
           THEN /\ skippedBadSub' = Append(skippedBadSub,
                                           [packet |-> index + 1, err |-> ex.err])
                /\ index' = index + 1
                /\ UNCHANGED <<outcome, subtitles, err>>
           ELSE IF ex.outcome # "ok"
           THEN /\ outcome' = ex.outcome
                /\ UNCHANGED <<index, subtitles, skippedBadSub, err>>
           ELSE IF dec.outcome # "ok"
           THEN /\ outcome' = dec.outcome
                /\ UNCHANGED <<index, subtitles, skippedBadSub, err>>
           ELSE /\ subtitles' = MapSet(subtitles, id,
                                  Append(streamSubs, NewSubtitle(metadata, subPkt, dec)))
                /\ index' = index + 1
                /\ UNCHANGED <<outcome, skippedBadSub, err>>
    /\ UNCHANGED <<readVars, fnVars>>
    /\ UNCHANGED <<inputs, pc, subtitlesPackets, fixed>>

\* a variant of DecodeOne where the new Subtitle is put before those of its
\* stream
DecodeOnePrepend ==
    /\ pc = "decode"
    /\ outcome = "running"
    /\ index < Len(subtitlesPackets)
    /\ LET subPkt == subtitlesPackets[index + 1]
           id == SubtitleID(subPkt.SubStreamID)
           streamSubs == IF id \in DOMAIN subtitles THEN subtitles[id] ELSE <<>>
       IN  \E ex \in {extractRAWSubtitle(subPkt.Payload)} :
           \E dec \in {IF ex.outcome = "ok"
                        THEN SubtitleRAWDecode(ex.subtitle, metadata, fullSizeImages)
                        ELSE DecodeResult("error", "nil", NilImage, ZeroPlan)} :
           IF ex.outcome = "error"
           THEN /\ skippedBadSub' = Append(skippedBadSub,
                                           [packet |-> index + 1, err |-> ex.err])
                /\ index' = index + 1
                /\ UNCHANGED <<outcome, subtitles, err>>
           ELSE IF ex.outcome # "ok"
           THEN /\ outcome' = ex.outcome
                /\ UNCHANGED <<index, subtitles, skippedBadSub, err>>
           ELSE IF dec.outcome = "error"
           THEN /\ err' = "failed to decode subtitle"
                /\ outcome' = "returned"
                /\ UNCHANGED <<index, subtitles, skippedBadSub>>
           ELSE IF dec.outcome # "ok"
           THEN /\ outcome' = dec.outcome
                /\ UNCHANGED <<index, subtitles, skippedBadSub, err>>
           ELSE /\ subtitles' = MapSet(subtitles, id,
                                  <<NewSubtitle(metadata, subPkt, dec)>> \o streamSubs)
                /\ index' = index + 1
                /\ UNCHANGED <<outcome, skippedBadSub, err>>
    /\ UNCHANGED <<readVars, fnVars>>
    /\ UNCHANGED <<inputs, pc, subtitlesPackets, fixed>>

\* "Decode raw subtitles to final subtitles": one iteration
DecodeOne ==
    /\ pc = "decode"
    /\ outcome = "running"
    /\ index < Len(subtitlesPackets)
    /\ LET subPkt == subtitlesPackets[index + 1]
           id == SubtitleID(subPkt.SubStreamID)
           streamSubs == IF id \in DOMAIN subtitles THEN subtitles[id] ELSE <<>>
       IN  \E ex \in {extractRAWSubtitle(subPkt.Payload)} :
           \E dec \in {IF ex.outcome = "ok"
                        THEN SubtitleRAWDecode(ex.subtitle, metadata, fullSizeImages)
                        ELSE DecodeResult("error", "nil", NilImage, ZeroPlan)} :
           /\ metadata' = IF ex.outcome = "ok"
                           THEN MetadataAfterDecode(ex.subtitle, metadata)
                           ELSE metadata
           /\ IF ex.outcome = "error"
              THEN /\ skippedBadSub' = Append(skippedBadSub,
                                              [packet |-> index + 1, err |-> ex.err])
                   /\ index' = index + 1
                   /\ UNCHANGED <<outcome, subtitles, err>>
              ELSE IF ex.outcome # "ok"
              THEN /\ outcome' = ex.outcome
                   /\ UNCHANGED <<index, subtitles, skippedBadSub, err>>
              ELSE IF dec.outcome = "error"
              THEN /\ err' = "failed to decode subtitle"
                   /\ outcome' = "returned"
                   /\ UNCHANGED <<index, subtitles, skippedBadSub>>
              ELSE IF dec.outcome # "ok"
              THEN /\ outcome' = dec.outcome
                   /\ UNCHANGED <<index, subtitles, skippedBadSub, err>>
              ELSE /\ subtitles' = MapSet(subtitles, id,
                                     Append(streamSubs, NewSubtitle(metadata, subPkt, dec)))
                   /\ index' = index + 1
                   /\ UNCHANGED <<outcome, skippedBadSub, err>>
    /\ UNCHANGED <<readVars, fnVars>>
    /\ UNCHANGED <<fullSizeImages, privateStream1Packets, pc, subtitlesPackets, fixed>>

DecodeDone ==
    /\ pc = "decode"
    /\ outcome = "running"
    /\ index = Len(subtitlesPackets)
    /\ pc' = "postpass"
    /\ UNCHANGED <<readVars, fnVars>>
    /\ UNCHANGED <<inputs, outcome, index, subtitlesPackets, subtitles, skippedBadSub,
                   err, fixed>>

\* the `for index, sub := range streamSubs` loop of the security check, from
\* the Go index i; nbStreams is len(subtitles)
RECURSIVE FixStops(_, _, _)
FixStops(streamSubs, i, nbStreams) ==
    IF i >= Len(streamSubs)
    THEN [outcome |-> "ok", streamSubs |-> streamSubs]
    ELSE IF streamSubs[i + 1].Start = streamSubs[i + 1].Stop /\ i + 1 < nbStreams
    THEN IF i + 1 >= Len(streamSubs)
         THEN [outcome |-> "panic", streamSubs |-> streamSubs]
         ELSE LET potentialStop == streamSubs[i + 2].Start - (100 * Millisecond)
              IN  FixStops(IF potentialStop > streamSubs[i + 1].Start
                           THEN [streamSubs EXCEPT ![i + 1].Stop = potentialStop]
                           ELSE streamSubs,
                           i + 1, nbStreams)
    ELSE FixStops(streamSubs, i + 1, nbStreams)

\* the security check on one stream; Go ranges over the map in any order
PostPass ==
    /\ pc = "postpass"
    /\ outcome = "running"
    /\ \E id \in DOMAIN subtitles \ fixed :
          LET r == FixStops(subtitles[id], 0, Cardinality(DOMAIN subtitles))
          IN  /\ subtitles' = [subtitles EXCEPT ![id] = r.streamSubs]
              /\ outcome' = IF r.outcome = "ok" THEN "running" ELSE r.outcome
              /\ fixed' = fixed \cup {id}
    /\ UNCHANGED <<readVars, fnVars>>
    /\ UNCHANGED <<inputs, pc, index, subtitlesPackets, skippedBadSub, err>>

Return ==
    /\ pc = "postpass"
    /\ outcome = "running"
    /\ fixed = DOMAIN subtitles
    /\ outcome' = "returned"
    /\ UNCHANGED <<readVars, fnVars>>
    /\ UNCHANGED <<inputs, pc, index, subtitlesPackets, subtitles, skippedBadSub, err,
                   fixed>>

Next == Concat \/ ConcatDone \/ DecodeOne \/ DecodeDone \/ PostPass \/ Return

Spec == Init /\ [][Next]_vars

(***************************************************************************)
(* ReadSubFile (part_010, third file) on the files of the model            *)
(***************************************************************************)
\* the units a file is made of, each a list of elements: a pack header with
\* a private stream 1 packet (PES header, extension, sub stream id, payload),
\* a padding packet (PES header, padding), the program end, a pack header
\* with a padding packet
ElemPackHeader == <<0, 0, 1, 186, 68, 0, 4, 0, 4, 1, 0, 0, 7, 248>>
ElemPaddingHeader == <<0, 0, 1, 190, 0, 4>>
ElemPadding == <<255, 255, 255, 255>>
ElemProgramEnd == <<0, 0, 1, 185>>
UnitSubtitle ==
    <<ElemPackHeader, <<0, 0, 1, 189, 0, 11>>, <<129, 128, 5>> \o PTS100, <<32>>,
      <<170, 187>>>>
\* UnitSubtitle with the first two bits of its extension header at 00
UnitBadMarker ==
    <<ElemPackHeader, <<0, 0, 1, 189, 0, 11>>, <<1, 128, 5>> \o PTS100, <<32>>,
      <<170, 187>>>>
UnitPadding == <<ElemPaddingHeader, ElemPadding>>
UnitProgramEnd == <<ElemProgramEnd>>
UnitPackPadding == <<ElemPackHeader, ElemPaddingHeader, ElemPadding>>
UnitLibrary ==
    {UnitSubtitle, UnitBadMarker, UnitPadding, UnitProgramEnd, UnitPackPadding}

\* the bytes of a list of lists of bytes
RECURSIVE Flatten(_)
Flatten(ss) == IF ss = <<>> THEN <<>> ELSE Head(ss) \o Flatten(Tail(ss))

UnitLists == UNION {[1..n -> UnitLibrary] : n \in 0..MaxUnits}

\* the bytes of a list of units
FileOf(units) == Flatten([i \in 1..Len(units) |-> Flatten(units[i])])

\* the files: lists of units, whole or cut anywhere
Files ==
    UNION {{SubSeq(FileOf(units), 1, n) : n \in 0..Len(FileOf(units))} :
              units \in UnitLists}

InitRead ==
    /\ metadata \in {m \in Metadatas : m.TimeOffset = 0}
    /\ fullSizeImages = FALSE
    /\ privateStream1Packets = <<>>
    /\ pc = "concat"
    /\ outcome = "returned"
    /\ index = 0
    /\ subtitlesPackets = <<>>
    /\ subtitles = EmptyMap
    /\ skippedBadSub = <<>>
    /\ err = "nil"
    /\ fixed = {}
    /\ stream \in Files
    /\ nextAt = 0
    /\ readPackets = <<>>
    /\ readErr = "nil"
    /\ readOutcome = "running"
    /\ walkLog = {}
    /\ fnCall = NoCall
    /\ fnResult = NoResult

\* a variant of ParsePacket where the stream is taken as ended once a packet
\* has been read from it
ParsePacketStateful ==
    /\ readOutcome = "running"
    /\ nextAt >= 0
    /\ \E r \in {IF readPackets # <<>>
                 THEN ParseResult("ok", ZeroPacket, -1, "nil")
                 ELSE StreamParsePacket(stream, nextAt)} :
          /\ walkLog' = walkLog \cup {[at |-> nextAt, outcome |-> r.outcome,
                                        packet |-> r.packet,
                                        nextAt |-> IF r.outcome = "ok" THEN r.nextAt ELSE 0]}
          /\ IF r.outcome = "panic"
             THEN /\ readOutcome' = "panic"
                  /\ UNCHANGED <<nextAt, readPackets, readErr>>
             ELSE IF r.outcome = "error"
             THEN /\ readOutcome' = "returned"
                  /\ readErr' = "failed to parse packet"
                  /\ UNCHANGED <<nextAt, readPackets>>
             ELSE /\ nextAt' = r.nextAt
                  /\ readPackets' = IF r.packet.StreamID = StreamIDPrivateStream1
                                    THEN Append(readPackets, r.packet)
                                    ELSE readPackets
                  /\ UNCHANGED <<readOutcome, readErr>>
    /\ UNCHANGED <<decodeVars, fnVars, stream>>

\* one iteration of `for nextAt >= 0`
ParsePacket ==
    /\ readOutcome = "running"
    /\ nextAt >= 0
    /\ \E r \in {StreamParsePacket(stream, nextAt)} :
          /\ walkLog' = walkLog \cup {[at |-> nextAt, outcome |-> r.outcome,
                                        packet |-> r.packet,
                                        nextAt |-> IF r.outcome = "ok" THEN r.nextAt ELSE 0]}
          /\ IF r.outcome = "panic"
             THEN /\ readOutcome' = "panic"
                  /\ UNCHANGED <<nextAt, readPackets, readErr>>
             ELSE IF r.outcome = "error"
             THEN /\ readOutcome' = "returned"
                  /\ readErr' = "failed to parse packet"
                  /\ UNCHANGED <<nextAt, readPackets>>
             ELSE /\ nextAt' = r.nextAt
                  /\ readPackets' = IF r.packet.StreamID = StreamIDPrivateStream1
                                    THEN Append(readPackets, r.packet)
                                    ELSE readPackets
                  /\ UNCHANGED <<readOutcome, readErr>>
    /\ UNCHANGED <<decodeVars, fnVars, stream>>

\* the loop is left and the packets are returned
ReadReturn ==
    /\ readOutcome = "running"
    /\ nextAt < 0
    /\ readOutcome' = "returned"
    /\ UNCHANGED <<decodeVars, fnVars, stream, nextAt, readPackets, readErr, walkLog>>

NextRead == ParsePacket \/ ReadReturn

SpecRead == InitRead /\ [][NextRead]_vars

\* the walk of ReadSubFile is started again on the same file, from a position
\* that a call of StreamParsePacket returned as the next one
Restart ==
    /\ \E e \in walkLog :
          /\ e.outcome = "ok"
          /\ e.nextAt >= 0
          /\ nextAt' = e.nextAt
    /\ readPackets' = <<>>
    /\ readErr' = "nil"
    /\ readOutcome' = "running"
    /\ UNCHANGED <<decodeVars, fnVars, stream, walkLog>>

NextReRead == ParsePacket \/ ReadReturn \/ Restart

SpecReRead == InitRead /\ [][NextReRead]_vars

(***************************************************************************)
(* The functions of the decoder called alone, each on inputs of its own    *)
(***************************************************************************)
\* the most bytes of pixel data
MaxRLEBytes == 3

\* bytes whose nibbles make codewords of one to four nibbles, runs longer than
\* a line and runs to the end of the line
RLEBytes == {0, 1, 4, 16, 49, 255}

\* the coordinates command of the rectangle x1..x2, y1..y2
CmdCoordinatesOf(x1, x2, y1, y2) ==
    <<subtitleCTRLSeqCmdCoordinates,
      x1 \div 16, ((x1 % 16) * 16) + (x2 \div 256), x2 % 256,
      y1 \div 16, ((y1 % 16) * 16) + (y2 \div 256), y2 % 256>>

\* the RLE offsets command: the first lines at 4, the second at 4 + split
CmdRLEOffsetsOf(split) == <<subtitleCTRLSeqCmdRLEOffsets, 0, 4, 0, 4 + split>>

\* a subpicture unit with one control sequence: pixels, their split between
\* odd and even lines, and the rectangle
RenderPayload(pixels, split, rect) ==
    SPU(pixels,
        CtrlSeq(0, 4 + Len(pixels),
                CmdPalette \o CmdAlpha
                \o CmdCoordinatesOf(rect[1], rect[2], rect[3], rect[4])
                \o CmdRLEOffsetsOf(split) \o <<subtitleCTRLSeqCmdStartDate>>))

\* the rectangles <<x1, x2, y1, y2>> of the rendered subpictures
RenderRects == {<<0, 2, 0, 2>>, <<1, 4, 1, 2>>, <<0, 2, 0, 3>>}

RenderMetadata ==
    [Width |-> 6, Height |-> 4, Origin |-> [X |-> 0, Y |-> 0], TimeOffset |-> 0,
     Palette |-> IdxPalette(255)]

PixelDatas == UNION {[1..n -> RLEBytes] : n \in 0..MaxRLEBytes}

\* the calls of SubtitleRAW.Decode
RenderCalls ==
    { [fn |-> "SubtitleRAWDecode", pixels |-> pixels, split |-> split, rect |-> rect,
       fullSize |-> fullSize] :
         pixels \in PixelDatas, split \in 0..MaxRLEBytes, rect \in RenderRects,
         fullSize \in BOOLEAN }

\* the most runs of a line of pixel data
MaxRuns == 2

\* the shortest codeword of a run of 1..255 pixels of a colour, as nibbles:
\* rrcc, 00rr rrcc, 0000 rrrr rrcc, 0000 00rr rrrr rrcc
EncodeRun(run) ==
    IF run.repeat < 4
    THEN <<(run.repeat * 4) + run.color>>
    ELSE IF run.repeat < 16
    THEN <<run.repeat \div 4, ((run.repeat % 4) * 4) + run.color>>
    ELSE IF run.repeat < 64
    THEN <<0, run.repeat \div 4, ((run.repeat % 4) * 4) + run.color>>
    ELSE <<0, run.repeat \div 64, (run.repeat \div 4) % 16,
           ((run.repeat % 4) * 4) + run.color>>

\* the codewords of a list of runs, one after the other
RECURSIVE EncodeRuns(_)
EncodeRuns(runs) ==
    IF runs = <<>> THEN <<>> ELSE EncodeRun(Head(runs)) \o EncodeRuns(Tail(runs))

\* the bytes of a list of nibbles, the high nibble of a byte first; a last
\* byte with one nibble has 0 as its low nibble
PackNibbles(nibbles) ==
    [i \in 1..((Len(nibbles) + 1) \div 2) |->
        (nibbles[(2 * i) - 1] * 16) + (IF 2 * i <= Len(nibbles) THEN nibbles[2 * i] ELSE 0)]

\* every run, and the runs that follow it in a line: the least and the most
\* run of each length of codeword
AllRuns == [repeat : 1..255, color : 0..3]
NextRuns ==
    { [repeat |-> 3, color |-> 1], [repeat |-> 4, color |-> 2],
      [repeat |-> 15, color |-> 0], [repeat |-> 16, color |-> 3],
      [repeat |-> 63, color |-> 3], [repeat |-> 64, color |-> 0],
      [repeat |-> 255, color |-> 2] }

RunLists ==
    UNION { {<<first>> \o rest : first \in AllRuns, rest \in [1..n -> NextRuns]} :
               n \in 0..(MaxRuns - 1) }

\* the calls of decodeRLE, one per run, on the codewords of a list of runs
RLECalls ==
    { [fn |-> "decodeRLE", runs |-> runs, data |-> PackNibbles(EncodeRuns(runs))] :
         runs \in RunLists }

\* the five PTS bytes of a tick count given by its bits 32..30, 29..22, 21..15,
\* 14..7 and 6..0; marker: the other bits all 0, as in a PTS alone (0010 in
\* the high bits of the first byte, 1 in the low bit of bytes 0, 2, 4), or all 1
EncodePTS(parts, marker) ==
    <<((CASE marker = 0 -> 0 [] marker = 1 -> 2 [] OTHER -> 15) * 16)
         + (parts[1] * 2) + (IF marker = 0 THEN 0 ELSE 1),
      parts[2],
      (parts[3] * 2) + (IF marker = 0 THEN 0 ELSE 1),
      parts[4],
      (parts[5] * 2) + (IF marker = 0 THEN 0 ELSE 1)>>

\* the calls of ComputePTS: tick counts over the 33 bits, the least and the
\* most among them
PTSCalls ==
    { [fn |-> "ComputePTS", parts |-> parts, marker |-> marker,
       PTS |-> EncodePTS(parts, marker)] :
         parts \in (0..7) \X {0, 1, 255} \X {0, 127} \X {0, 128, 255} \X {0, 1, 127},
         marker \in 0..2 }

\* an SPU of 18 bytes with the size field `size`, the data size field
\* `dataSize`, two bytes of pixel data, and two control sequences at the
\* offsets 6 and 12 whose next offsets are nextA and nextB
ChainPayload(size, dataSize, nextA, nextB) ==
    <<0, size, 0, dataSize>> \o PixelData
        \o <<0, 0, 0, nextA, 1, 255>> \o <<0, 5, 0, nextB, 2, 255>>

\* buffers too short to hold the two headers
ShortPayloads == { <<>>, <<0>>, <<0, 2>>, <<0, 5>>, <<0, 3, 0>>, <<0, 3, 3>> }

ExtractCalls ==
    { [fn |-> "extractRAWSubtitle", Payload |-> p] :
         p \in ShortPayloads \cup
               { ChainPayload(size, dataSize, nextA, nextB) :
                    size \in {17, 18},
                    dataSize \in {0, 3, 4, 6, 12, 16, 17, 18, 19},
                    nextA \in {0, 6, 12, 18, 19},
                    nextB \in {0, 6, 12, 18} } }

\* the bytes n, n + 1, ... of a field of `size` bytes
FieldBytes(n, size) == [i \in 1..size |-> n + i - 1]

\* the fields of an extension data in the order of the format, for the flags
\* (Header[1]), the flags byte `headers` of the second extension and a PES
\* extension 2 of n2 bytes: whether the field is present, its bytes in the
\* data, and the value it holds
ExtensionFields(flags, headers, n2) ==
    LET second == Bit(flags, 0) = 1
        F(field, present, bytes, value) ==
            [field |-> field, present |-> present, bytes |-> bytes, value |-> value]
        B(field, present, n, size) ==
            F(field, present, FieldBytes(n, size), FieldBytes(n, size))
    IN  << B("PTS", Bit(flags, 7) = 1, 11, pesExtensionDataPTSSize),
           B("DTS", Bit(flags, 6) = 1, 21, pesExtensionDataDTSSize),
           B("ESCR", Bit(flags, 5) = 1, 31, pesExtensionDataESCRSize),
           B("ESRate", Bit(flags, 4) = 1, 41, pesExtensionDataESRateSize),
           F("AdditionalCopyInfo", Bit(flags, 2) = 1, <<128 + 7>>, <<7>>),
           B("PreviousPacketCRC", Bit(flags, 1) = 1, 51, pesExtensionDataCRCSize),
           F("headers", second, <<headers>>, <<>>),
           B("PrivateData", second /\ Bit(headers, 7) = 1, 60,
             pesExtensionDataPrivateDataSize),
           B("PackHeaderField", second /\ Bit(headers, 6) = 1, 81, 1),
           B("ProgramPacketSequenceCounter", second /\ Bit(headers, 5) = 1, 91,
             pesExtensionDataProgramPacketSequenceCounterSize),
           B("PSTD", second /\ Bit(headers, 4) = 1, 101, pesExtensionDataPSTDBufferSize),
           F("header", second /\ Bit(headers, 0) = 1, <<128 + n2, 0>>, <<>>),
           B("PESExtensionSecond", second /\ Bit(headers, 0) = 1, 111, n2) >>

\* the bytes of the fields present, from the i-th
RECURSIVE EncodeFields(_, _)
EncodeFields(fields, i) ==
    IF i > Len(fields)
    THEN <<>>
    ELSE (IF fields[i].present THEN fields[i].bytes ELSE <<>>)
             \o EncodeFields(fields, i + 1)

\* the flags without the DSM trick mode, which ParsePESExtensionData does not
\* read
ExtensionFlags == {f \in 0..255 : Bit(f, 3) = 0}

\* the flags bytes of the second extension with the fixed bits set
SecondExtensionFlags == {h \in 0..255 : (h \div 2) % 8 = 7}

\* the lengths of the PES extension 2
SecondExtensionLens == {0, 1, 3}

ExtensionCalls ==
    { [fn |-> "ParsePESExtensionData", flags |-> flags, headers |-> headers,
       n2 |-> n2] :
         flags \in ExtensionFlags, headers \in SecondExtensionFlags,
         n2 \in SecondExtensionLens }

\* the most control sequences of a subtitle
MaxCtrlSeqs == 2

\* a control sequence with a date and the start-date and stop-date commands
\* or not; the first of a subtitle has the four rendering commands
DatedSequences ==
    { [ZeroControlSequence EXCEPT !.Date = <<0, d>>, !.StartDate = start,
                                  !.StopDate = stop] :
         d \in {0, 5, 10}, start \in BOOLEAN, stop \in BOOLEAN }

WithRendering(cs) ==
    [cs EXCEPT !.PaletteColors = Tail(CmdPalette), !.AlphaChannels = Tail(CmdAlpha),
               !.Coordinates = Tail(CmdCoordinates), !.RLEOffsets = Tail(CmdRLEOffsets)]

\* the calls of SubtitleRAW.Decode on lists of control sequences
SequencesCalls ==
    { [fn |-> "DecodeSequences",
       ControlSequences |-> [i \in 1..Len(css) |->
                                IF i = 1 THEN WithRendering(css[i]) ELSE css[i]]] :
         css \in UNION {[1..n -> DatedSequences] : n \in 1..MaxCtrlSeqs} }

\* one line of four pixels of the colours 0, 1, 2, 3
FourColorsData == <<69, 103>>

\* the bytes of the arguments of the palette and alpha commands
NibblePairs == {1, 35, 50, 69, 103, 137, 171, 205, 239, 240, 255}

\* the main alpha of the palette of the idx file
MainAlphas == {16, 100, 128, 255}

\* the calls of SubtitleRAW.Decode on palette and alpha arguments
ColorsCalls ==
    { [fn |-> "DecodeColors", palette |-> palette, alpha |-> alpha,
       mainAlpha |-> mainAlpha] :
         palette \in {<<50, 16>>, <<1, 35>>, <<255, 240>>},
         alpha \in NibblePairs \X NibblePairs,
         mainAlpha \in MainAlphas }

\* the lengths an extension header announces while its flags ask for more
ShortLens == {0, 4, 6}

\* calls where the data, as long as the header says, are the first bytes only
\* of the fields the flags announce
ShortExtensionCalls ==
    { c \in [fn : {"ParseShortExtensionData"}, flags : ExtensionFlags,
             keep : ShortLens] :
         c.keep < Len(EncodeFields(ExtensionFields(c.flags, 14, 0), 1)) }

FnCalls ==
    {c \in RenderCalls : c.split <= Len(c.pixels)} \cup PTSCalls \cup RLECalls
        \cup ExtractCalls \cup SequencesCalls \cup ColorsCalls
        \cup ShortExtensionCalls
        \cup {c \in ExtensionCalls :
                 /\ Bit(c.flags, 0) = 0 => c.headers = 14
                 /\ (Bit(c.flags, 0) = 0 \/ Bit(c.headers, 0) = 0) => c.n2 = 0}

InitFn ==
    /\ metadata = RenderMetadata
    /\ fullSizeImages = FALSE
    /\ privateStream1Packets = <<>>
    /\ pc = "concat"
    /\ outcome = "returned"
    /\ index = 0
    /\ subtitlesPackets = <<>>
    /\ subtitles = EmptyMap
    /\ skippedBadSub = <<>>
    /\ err = "nil"
    /\ fixed = {}
    /\ stream = <<>>
    /\ nextAt = 0
    /\ readPackets = <<>>
    /\ readErr = "nil"
    /\ readOutcome = "returned"
    /\ walkLog = {}
    /\ fnCall \in FnCalls
    /\ fnResult = NoResult

\* SubtitleRAW.Decode on the subtitle extracted from a payload
CallSubtitleRAWDecode ==
    /\ fnCall.fn = "SubtitleRAWDecode"
    /\ fnResult = NoResult
    /\ \E ex \in {extractRAWSubtitle(
                      RenderPayload(fnCall.pixels, fnCall.split, fnCall.rect))} :
       \E dec \in {SubtitleRAWDecode(ex.subtitle, metadata, fnCall.fullSize)} :
          fnResult' = dec
    /\ UNCHANGED <<decodeVars, readVars, fnCall>>

\* extractRAWSubtitle on a payload
CallExtractRAWSubtitle ==
    /\ fnCall.fn = "extractRAWSubtitle"
    /\ fnResult = NoResult
    /\ fnResult' = extractRAWSubtitle(fnCall.Payload)
    /\ UNCHANGED <<decodeVars, readVars, fnCall>>

\* PESExtension.ParsePESExtensionData on the data made of the fields that the
\* flags announce
CallParsePESExtensionData ==
    /\ fnCall.fn = "ParsePESExtensionData"
    /\ fnResult = NoResult
    /\ \E data \in {EncodeFields(
                        ExtensionFields(fnCall.flags, fnCall.headers, fnCall.n2), 1)} :
          fnResult' = ParsePESExtensionData(<<129, fnCall.flags, Len(data)>>, data)
    /\ UNCHANGED <<decodeVars, readVars, fnCall>>

CallParseShortExtensionData ==
    /\ fnCall.fn = "ParseShortExtensionData"
    /\ fnResult = NoResult
    /\ \E data \in {Slice(EncodeFields(ExtensionFields(fnCall.flags, 14, 0), 1),
                           0, fnCall.keep)} :
          fnResult' = ParsePESExtensionData(<<129, fnCall.flags, Len(data)>>, data)
    /\ UNCHANGED <<decodeVars, readVars, fnCall>>

\* SubtitleRAW.Decode on a subtitle made of a list of control sequences
CallDecodeSequences ==
    /\ fnCall.fn = "DecodeSequences"
    /\ fnResult = NoResult
    /\ \E dec \in {SubtitleRAWDecode([Data |-> PixelData, Backing |-> PixelData,
                                        ControlSequences |-> fnCall.ControlSequences],
                                       metadata, FALSE)} :
          fnResult' = dec
    /\ UNCHANGED <<decodeVars, readVars, fnCall>>

\* SubtitleRAW.Decode on a subtitle of one line of four pixels of the colours
\* 0 to 3, with the palette and alpha arguments of the call and the palette of
\* an idx file with the main alpha of the call
CallDecodeColors ==
    /\ fnCall.fn = "DecodeColors"
    /\ fnResult = NoResult
    /\ \E dec \in {SubtitleRAWDecode(
                       [Data |-> FourColorsData, Backing |-> FourColorsData,
                        ControlSequences |->
                            <<[ZeroControlSequence EXCEPT
                                  !.StartDate = TRUE,
                                  !.PaletteColors = fnCall.palette,
                                  !.AlphaChannels = fnCall.alpha,
                                  !.Coordinates = Tail(CmdCoordinatesOf(0, 4, 0, 1)),
                                  !.RLEOffsets = Tail(CmdRLEOffsetsOf(2))]>>],
                       [metadata EXCEPT !.Palette = IdxPalette(fnCall.mainAlpha)],
                       FALSE)} :
          fnResult' = dec
    /\ UNCHANGED <<decodeVars, readVars, fnCall>>

\* PESExtensionData.ComputePTS
CallComputePTS ==
    /\ fnCall.fn = "ComputePTS"
    /\ fnResult = NoResult
    /\ fnResult' = [outcome |-> "ok", pts |-> ComputePTS64(fnCall.PTS)]
    /\ UNCHANGED <<decodeVars, readVars, fnCall>>

\* n calls of decodeRLE on one iterator: the pixels returned and the nibbles
\* read after each call, up to the first error
RECURSIVE decodeRLETimes(_, _, _)
decodeRLETimes(data, ni, n) ==
    IF n = 0
    THEN [err |-> "nil", pixels |-> <<>>, read |-> <<>>]
    ELSE
      LET d == decodeRLE(data, ni)
          rest == decodeRLETimes(data, d.ni, n - 1)
      IN  IF d.err # "nil"
          THEN [err |-> d.err, pixels |-> <<>>, read |-> <<>>]
          ELSE [err |-> rest.err,
                pixels |-> <<d.p>> \o rest.pixels,
                read |-> <<(2 * d.ni.index) + (IF d.ni.readLow THEN 1 ELSE 0)>>
                           \o rest.read]

\* decodeRLE, once per run of the list, on a fresh iterator over the data
CallDecodeRLE ==
    /\ fnCall.fn = "decodeRLE"
    /\ fnResult = NoResult
    /\ \E r \in {decodeRLETimes(fnCall.data, [index |-> 0, readLow |-> FALSE],
                                 Len(fnCall.runs))} :
          fnResult' = [outcome |-> IF r.err = "nil" THEN "ok" ELSE "error",
                       pixels |-> r.pixels, read |-> r.read]
    /\ UNCHANGED <<decodeVars, readVars, fnCall>>

NextFn ==
    \/ CallSubtitleRAWDecode
    \/ CallComputePTS
    \/ CallDecodeRLE
    \/ CallExtractRAWSubtitle
    \/ CallParsePESExtensionData
    \/ CallParseShortExtensionData
    \/ CallDecodeSequences
    \/ CallDecodeColors

SpecFn == InitFn /\ [][NextFn]_vars

(***************************************************************************)
(* Properties of Decode                                                    *)
(***************************************************************************)
\* what ExtractSubtitle and SubtitleRAW.Decode make of the k-th joined packet
Extracted(k) == extractRAWSubtitle(subtitlesPackets[k].Payload)
ParseFails(k) == Extracted(k).outcome = "error"
RenderFails(k) ==
    \E ex \in {Extracted(k)} :
        /\ ex.outcome = "ok"
        /\ SubtitleRAWDecode(ex.subtitle, metadata, fullSizeImages).outcome = "error"

\* the number of Subtitles, all streams together
NbSubtitles ==
    Cardinality(UNION {{id} \X (1..Len(subtitles[id])) : id \in DOMAIN subtitles})

\* the entries of the skipped list for the k-th joined packet
SkippedFor(k) == {i \in 1..Len(skippedBadSub) : skippedBadSub[i].packet = k}

\* Decode is in or past the decoding loop
Decoding == pc \in {"decode", "postpass"}

\* the decoding loop stopped at the joined packet index + 1
StoppedInLoop == pc = "decode" /\ (outcome # "running" \/ err # "nil")

C3_PostPassFixesStop ==
    [][(pc = "postpass" /\ fixed' # fixed) =>
          \A id \in fixed' \ fixed :
             \A i \in 1..(Len(subtitles[id]) - 1) :
                (/\ subtitles[id][i].Stop = subtitles[id][i].Start
                 /\ subtitles[id][i + 1].Start - (100 * Millisecond)
                        > subtitles[id][i].Start)
                => /\ outcome' = "running"
                   /\ subtitles'[id][i].Stop
                        = subtitles[id][i + 1].Start - (100 * Millisecond)]_vars

\* the packets of privateStream1Packets from position `from` up to the next
\* packet with a PTS, payloads joined
RECURSIVE JoinedPayload(_, _)
JoinedPayload(packets, from) ==
    IF from < Len(packets) /\ ComputePTS(packets[from + 1].PTS) = 0
    THEN packets[from].Payload \o JoinedPayload(packets, from + 1)
    ELSE packets[from].Payload

\* the positions of the packets with a PTS, in file order
Starters(packets) ==
    SelectSeq([i \in 1..Len(packets) |-> i],
              LAMBDA i : ComputePTS(packets[i].PTS) # 0)

\* C4: once the joining loop is over, there is one joined packet per packet
\* with a PTS, in file order, holding its PTS and stream and the payloads from
\* it up to the next packet with a PTS, in order; two packets of which only
\* the first has a PTS are one joined packet, payload1 then payload2, and no
\* more than one Subtitle
C4_Reassembly ==
    Decoding =>
        /\ Len(subtitlesPackets) = Len(Starters(privateStream1Packets))
        /\ \A n \in 1..Len(subtitlesPackets) :
              \E s \in {Starters(privateStream1Packets)[n]} :
                 /\ subtitlesPackets[n].PTS = privateStream1Packets[s].PTS
                 /\ subtitlesPackets[n].SubStreamID = privateStream1Packets[s].SubStreamID
                 /\ subtitlesPackets[n].Payload = JoinedPayload(privateStream1Packets, s)
        /\ (/\ Len(privateStream1Packets) = 2
            /\ ComputePTS(privateStream1Packets[1].PTS) # 0
            /\ ComputePTS(privateStream1Packets[2].PTS) = 0)
           => /\ Len(subtitlesPackets) = 1
              /\ subtitlesPackets[1].Payload
                    = privateStream1Packets[1].Payload \o privateStream1Packets[2].Payload
              /\ NbSubtitles <= 1
              /\ (outcome = "returned" /\ err = "nil")
                    => NbSubtitles + Len(skippedBadSub) = 1

\* C4 witness: a subtitle split over two packets, the second without PTS, was
\* decoded to a single Subtitle
C4_Witness ==
    /\ outcome = "returned"
    /\ err = "nil"
    /\ Len(privateStream1Packets) = 2
    /\ privateStream1Packets[1].Payload = PayloadPart1
    /\ privateStream1Packets[2].Payload = PayloadPart2
    /\ ComputePTS(privateStream1Packets[2].PTS) = 0
    /\ Len(subtitlesPackets) = 1
    /\ subtitlesPackets[1].Payload = PayloadFull
    /\ NbSubtitles = 1
    /\ skippedBadSub = <<>>

\* C5 as stated: when the first packet has no PTS, Decode returns an error
C5_DanglingContinuationError ==
    (/\ Len(privateStream1Packets) > 0
     /\ ComputePTS(privateStream1Packets[1].PTS) = 0
     /\ (pc # "concat" \/ index > 0 \/ outcome # "running"))
    => (outcome = "returned" /\ err # "nil")

\* C27 as stated: a packet without PTS is appended only to a joined packet
\* whose first packet has the same SubStreamID, so that the payloads of two
\* interleaved streams are never joined
C27_SameStreamContinuation ==
    [][(/\ pc = "concat"
        /\ index < Len(privateStream1Packets)
        /\ ComputePTS(privateStream1Packets[index + 1].PTS) = 0
        /\ subtitlesPackets' # subtitlesPackets)
       => subtitlesPackets[Len(subtitlesPackets)].SubStreamID
             = privateStream1Packets[index + 1].SubStreamID]_vars

\* C28: when Decode returns without error, the Subtitles of all streams and
\* the skipped errors are together as many as the joined packets, which are as
\* many as the packets with a nonzero PTS; in the decoding loop each joined
\* packet passed gave one Subtitle or one skipped error, never both
C28_Accounting ==
    /\ (pc = "decode" /\ outcome = "running" /\ err = "nil")
          => NbSubtitles + Len(skippedBadSub) = index
    /\ \A k \in 1..Len(subtitlesPackets) : Cardinality(SkippedFor(k)) <= 1
    /\ (outcome = "returned" /\ err = "nil")
          => /\ NbSubtitles + Len(skippedBadSub) = Len(subtitlesPackets)
             /\ Len(subtitlesPackets) = Len(Starters(privateStream1Packets))

\* C28 witness: Decode returned without error from three packets with a PTS
\* and gave both Subtitles and a skipped error
C28_Witness ==
    /\ outcome = "returned"
    /\ err = "nil"
    /\ Len(Starters(privateStream1Packets)) = 3
    /\ Len(skippedBadSub) = 1
    /\ NbSubtitles = 2

\* C29: rendering a joined packet leaves the metadata, its 16-entry palette
\* included, as it was, the palette of the image is a new one of 4 entries,
\* and the Subtitle appended holds the image rendered from the packet alone
\* with the palette of the idx file, whatever was rendered before
C29_PaletteUntouched ==
    [][/\ metadata' = metadata
       /\ Len(metadata.Palette) = 16
       /\ (pc = "decode" /\ subtitles' # subtitles) =>
             \E subPkt \in {subtitlesPackets[index + 1]} :
             \E id \in {SubtitleID(subPkt.SubStreamID)} :
             \E plan \in {Consolidate(Extracted(index + 1).subtitle.ControlSequences,
                                      1, ZeroPlan)} :
                /\ Len(AdjustPalette(metadata.Palette, GetIDs(plan.paletteColors),
                                     GetRatios(plan.alphaChannels))) = 4
                /\ \E m \in Metadatas :
                      /\ m.Palette = metadata.Palette
                      /\ subtitles'[id][Len(subtitles'[id])].Image
                            = SubtitleRAWDecode(Extracted(index + 1).subtitle,
                                  [metadata EXCEPT !.Palette = m.Palette],
                                  fullSizeImages).img]_vars

\* C29 witness: a second Subtitle was rendered after a first one whose alpha
\* command makes a colour of the palette transparent
C29_Witness ==
    /\ pc = "decode"
    /\ index >= 2
    /\ NbSubtitles >= 2
    /\ \E plan \in {Consolidate(Extracted(1).subtitle.ControlSequences, 1, ZeroPlan)} :
          /\ plan.alphaChannels # <<>>
          /\ \E i \in 1..4 : GetRatios(plan.alphaChannels)[i] = 0

\* the date, in nanoseconds, of the last control sequence that has the command
\* `flag` ("StartDate" or "StopDate"); 0 when none has it
RECURSIVE DelayOfFlagged(_, _, _)
DelayOfFlagged(ControlSequences, flag, i) ==
    IF i = 0
    THEN 0
    ELSE IF ControlSequences[i][flag]
    THEN BE16(ControlSequences[i].Date[1], ControlSequences[i].Date[2])
            * 10 * Millisecond
    ELSE DelayOfFlagged(ControlSequences, flag, i - 1)

\* C9 as stated: the Subtitle appended for a joined packet is stored under the
\* stream of the packet, with Start and Stop the time offset plus the PTS of
\* the packet plus the date, times 10 ms, of the control sequence with the
\* start-date command, respectively the stop-date command
C9_StartStopTimes ==
    [][(pc = "decode" /\ subtitles' # subtitles) =>
          \E subPkt \in {subtitlesPackets[index + 1]} :
          \E cs \in {Extracted(index + 1).subtitle.ControlSequences} :
          \E id \in {SubtitleID(subPkt.SubStreamID)} :
             /\ id \in DOMAIN subtitles'
             /\ \E sub \in {subtitles'[id][Len(subtitles'[id])]} :
                   /\ sub.Start = metadata.TimeOffset + ComputePTS(subPkt.PTS)
                                    + DelayOfFlagged(cs, "StartDate", Len(cs))
                   /\ sub.Stop = metadata.TimeOffset + ComputePTS(subPkt.PTS)
                                    + DelayOfFlagged(cs, "StopDate", Len(cs))]_vars

\* the coordinates of the k-th joined packet, from its last coordinates command
CoordinatesOf(k) ==
    CoordinatesGet(Consolidate(Extracted(k).subtitle.ControlSequences, 1, ZeroPlan).coordinates)

\* C10 as stated: without full-size images, the image of the Subtitle appended
\* for a joined packet is x2 - x1 + 1 wide and y2 - y1 + 1 high, and holds the
\* pixels of column x2 and of row y2
C10_ImageSizeInclusive ==
    [][(pc = "decode" /\ subtitles' # subtitles /\ ~fullSizeImages) =>
          \E coord \in {CoordinatesOf(index + 1)} :
          \E id \in {SubtitleID(subtitlesPackets[index + 1].SubStreamID)} :
          \E sub \in {subtitles'[id][Len(subtitles'[id])]} :
             /\ Dx(sub.Image.Rect) = coord.Point2.X - coord.Point1.X + 1
             /\ Dy(sub.Image.Rect) = coord.Point2.Y - coord.Point1.Y + 1
             /\ <<coord.Point2.X, coord.Point2.Y>> \in DOMAIN sub.Image.Pix]_vars

\* the lines y, y + 2, ... of a subpicture w wide and h high, filled from the
\* codewords of `data` as the format has it: a run paints its pixels from x
\* on, a run of length 0 or one that passes the right edge ends at the edge,
\* and the line after a filled line starts on a whole byte
RECURSIVE SpuLines(_, _, _, _, _, _, _, _)
SpuLines(data, ni, x, y, w, h, palette, pix) ==
    IF Ended(data, ni) \/ y >= h
    THEN pix
    ELSE
      LET d == decodeRLE(data, ni)
          length == IF d.p.repeat = 0 \/ d.p.repeat > w - x THEN w - x ELSE d.p.repeat
          painted == [p \in DOMAIN pix |->
                         IF p[2] = y /\ p[1] >= x /\ p[1] < x + length
                         THEN palette[d.p.color + 1] ELSE pix[p]]
      IN  IF d.err # "nil"
          THEN pix
          ELSE IF x + length = w
          THEN SpuLines(data,
                        [index |-> d.ni.index + (IF d.ni.readLow THEN 1 ELSE 0),
                         readLow |-> FALSE],
                        0, y + 2, w, h, palette, painted)
          ELSE SpuLines(data, d.ni, x + length, y, w, h, palette, painted)

\* the pixels of the subpicture of the k-th joined packet, by their position
\* (i, j) in its rectangle x1..x2, y1..y2
SpuPixels(k) ==
    LET sr == Extracted(k).subtitle
        plan == Consolidate(sr.ControlSequences, 1, ZeroPlan)
        palette == AdjustPalette(metadata.Palette, GetIDs(plan.paletteColors),
                                 GetRatios(plan.alphaChannels))
        size == Size(CoordinatesGet(plan.coordinates))
        off == RLEOffsetsGet(plan.RLEOffsets)
        blank == [p \in (0..(size.width - 1)) \X (0..(size.height - 1)) |-> ZeroRGBA]
        first == SpuLines(Slice(sr.Backing, off.firstLineOffset, off.secondLineOffset),
                          [index |-> 0, readLow |-> FALSE], 0, 0,
                          size.width, size.height, palette, blank)
    IN  SpuLines(SliceFrom(sr.Data, off.secondLineOffset),
                 [index |-> 0, readLow |-> FALSE], 0, 1,
                 size.width, size.height, palette, first)

\* C11 as stated: with full-size images, the image of the Subtitle appended
\* for a joined packet is metadata.Width x metadata.Height, the pixel (i, j) of
\* the subpicture is at (Origin.X + x1 + i, Origin.Y + y1 + j), and every pixel
\* that is not one of these is zero
C11_FullSizePlacement ==
    [][(pc = "decode" /\ subtitles' # subtitles /\ fullSizeImages) =>
          \E coord \in {CoordinatesOf(index + 1)} :
          \E spu \in {SpuPixels(index + 1)} :
          \E id \in {SubtitleID(subtitlesPackets[index + 1].SubStreamID)} :
          \E img \in {subtitles'[id][Len(subtitles'[id])].Image} :
             /\ img.Rect = Rect(0, 0, metadata.Width, metadata.Height)
             /\ \A p \in DOMAIN spu :
                   \E q \in {<<metadata.Origin.X + coord.Point1.X + p[1],
                                metadata.Origin.Y + coord.Point1.Y + p[2]>>} :
                      q \in DOMAIN img.Pix /\ img.Pix[q] = spu[p]
             /\ \A q \in DOMAIN img.Pix :
                   <<q[1] - metadata.Origin.X - coord.Point1.X,
                     q[2] - metadata.Origin.Y - coord.Point1.Y>> \notin DOMAIN spu
                   => img.Pix[q] = ZeroRGBA]_vars

\* the joined packets of the stream id that the loop has passed and not
\* skipped, in the order of the file
DecodedOf(id) ==
    SelectSeq([k \in 1..index |-> k],
              LAMBDA k : /\ SubtitleID(subtitlesPackets[k].SubStreamID) = id
                         /\ ~ParseFails(k))

\* the presentation time of the k-th joined packet: its PTS plus the date of
\* its control sequence with the start-date command
PresentationOf(k) ==
    ComputePTS(subtitlesPackets[k].PTS)
        + DelayOfFlagged(Extracted(k).subtitle.ControlSequences, "StartDate",
                         Len(Extracted(k).subtitle.ControlSequences))

\* s is non-decreasing
NonDecreasing(s) == \A i \in 1..(Len(s) - 1) : s[i] <= s[i + 1]

\* C16 as stated: when Decode returns with no error and nothing skipped from
\* a file whose PTS are non-decreasing within each stream, the Start values of
\* each stream are non-decreasing in the order of its list
C16_StartsNonDecreasing ==
    (/\ outcome = "returned"
     /\ err = "nil"
     /\ skippedBadSub = <<>>
     /\ \A id \in DOMAIN subtitles :
           NonDecreasing([n \in 1..Len(DecodedOf(id)) |->
                             ComputePTS(subtitlesPackets[DecodedOf(id)[n]].PTS)]))
    => \A id \in DOMAIN subtitles :
          NonDecreasing([n \in 1..Len(subtitles[id]) |-> subtitles[id][n].Start])

\* C16: the Subtitles of a stream are those of its joined packets, in the
\* order of the file, each with the Start time offset + PTS + start delay;
\* their Start values are non-decreasing when PTS + start delay is
\* non-decreasing over the joined packets of the stream, in the order of the
\* file
C16_StartsInFileOrder ==
    Decoding =>
        \A id \in DOMAIN subtitles :
           \E ks \in {DecodedOf(id)} :
              /\ Len(subtitles[id]) = Len(ks)
              /\ \A n \in 1..Len(ks) :
                    subtitles[id][n].Start = metadata.TimeOffset + PresentationOf(ks[n])
              /\ NonDecreasing([n \in 1..Len(ks) |-> PresentationOf(ks[n])])
                    => NonDecreasing([n \in 1..Len(ks) |-> subtitles[id][n].Start])

\* C16 witness: Decode returned two Subtitles of one stream, from joined
\* packets with the PTS 100 ms then 220 ms, the first with a start delay of
\* 200 ms: the Start values are 300 ms then 220 ms, in the order of the file
C16_Witness ==
    /\ outcome = "returned"
    /\ err = "nil"
    /\ metadata.TimeOffset = 0
    /\ Len(subtitlesPackets) = 2
    /\ subtitlesPackets[1].Payload = PayloadLateStart
    /\ subtitlesPackets[2].PTS = PTS220
    /\ 0 \in DOMAIN subtitles
    /\ Len(subtitles[0]) = 2
    /\ subtitles[0][1].Start = 300 * Millisecond
    /\ subtitles[0][2].Start = 220 * Millisecond

(***************************************************************************)
(* Properties of ReadSubFile                                               *)
(***************************************************************************)
\* ReadSubFile is about to call StreamParsePacket at nextAt
Parsing == readOutcome = "running" /\ nextAt >= 0

\* the bytes of the file from nextAt on
Rest == SliceFrom(stream, nextAt)

\* the position after a valid pack header at nextAt and its stuffing bytes,
\* -1 when the bytes at nextAt are no valid pack header
AfterPackHeader ==
    IF /\ Len(Rest) >= 14
       /\ SubSeq(Rest, 1, 4) = <<0, 0, 1, StreamIDPackHeader>>
       /\ PackHeaderValidate(SubSeq(Rest, 5, 14))
    THEN nextAt + 14 + StuffingBytesLength(SubSeq(Rest, 5, 14))
    ELSE -1

\* C6 as stated: a padding packet right after a valid pack header (and its
\* stuffing) is skipped: no error, no packet, and the next position is the
\* byte after the padding, the length read from the two bytes after 00 00 01 BE
C6_PaddingAfterPackHeaderSkipped ==
    [][(/\ Parsing
        /\ AfterPackHeader >= 0
        /\ AfterPackHeader + 6 <= Len(stream)
        /\ Slice(stream, AfterPackHeader, AfterPackHeader + 4)
              = <<0, 0, 1, StreamIDPaddingStream>>)
       => /\ readOutcome' = "running"
          /\ readErr' = "nil"
          /\ readPackets' = readPackets
          /\ nextAt' = AfterPackHeader + 6
                         + BE16(stream[AfterPackHeader + 5], stream[AfterPackHeader + 6])]_vars

\* C7: a call of StreamParsePacket at the program end code 00 00 01 B9, or at
\* or after the last byte of the file, gives no error and no packet and stops
\* the loop; the loop stopped, ReadSubFile returns the packets it has with no
\* error, none for the file 00 00 01 B9
C7_CleanEnd ==
    [][/\ (/\ Parsing
           /\ \/ nextAt >= Len(stream)
              \/ /\ Len(Rest) >= 4
                 /\ SubSeq(Rest, 1, 4) = <<0, 0, 1, StreamIDProgramEnd>>)
          => /\ nextAt' = -1
             /\ readOutcome' = "running"
             /\ readErr' = "nil"
             /\ readPackets' = readPackets
       /\ (readOutcome = "running" /\ nextAt < 0)
          => /\ readOutcome' = "returned"
             /\ readErr' = "nil"
             /\ readPackets' = readPackets
             /\ stream = ElemProgramEnd => readPackets' = <<>>]_vars

\* C7 witness: ReadSubFile returned from the file 00 00 01 B9, with no packet
\* and no error
C7_Witness ==
    /\ readOutcome = "returned"
    /\ stream = ElemProgramEnd
    /\ nextAt = -1
    /\ readPackets = <<>>
    /\ readErr = "nil"

\* the lengths at which a unit is cut between two of its elements, or not cut
ElementEnds(unit) == {Len(Flatten(SubSeq(unit, 1, k))) : k \in 0..Len(unit)}

\* the file ends at nextAt + n inside an element of a unit that starts at
\* nextAt: one byte at least and not all bytes of the element are there
EndsInsideElement ==
    \E unit \in UnitLibrary :
       \E n \in (1..Len(Flatten(unit))) \ ElementEnds(unit) :
          Rest = SubSeq(Flatten(unit), 1, n)

\* C8 as stated: when the file ends inside a start code, a pack header, a PES
\* header, an extension or a payload, ReadSubFile returns an error
C8_MidHeaderEOFIsError ==
    [][(Parsing /\ EndsInsideElement)
       => (readOutcome' = "returned" /\ readErr' # "nil")]_vars

\* the private stream 1 packets of the calls logged from the position p on,
\* each call at the position the one before returned as next
RECURSIVE LoggedPackets(_)
LoggedPackets(p) ==
    IF \A e \in walkLog : e.at # p
    THEN <<>>
    ELSE
      LET e == CHOOSE x \in walkLog : x.at = p
      IN  IF e.outcome # "ok"
          THEN <<>>
          ELSE (IF e.packet.StreamID = StreamIDPrivateStream1 THEN <<e.packet>> ELSE <<>>)
               \o (IF e.nextAt < 0 THEN <<>> ELSE LoggedPackets(e.nextAt))

ExtensionHeaderAt(at) ==
    LET afterPack == at + 14 + StuffingBytesLength(Slice(stream, at + 4, at + 14))
    IN  Slice(stream, afterPack + 6, afterPack + 9)

\* C19: every private stream 1 packet that the packetizer parsed without error
\* has an extension header whose first two bits are 10
C19_MarkerChecked ==
    \A e \in walkLog :
       (e.outcome = "ok" /\ e.packet.StreamID = StreamIDPrivateStream1)
           => ExtensionHeaderAt(e.at)[1] \div 64 = 2

\* C26: every call of StreamParsePacket that returned no error gave the stop
\* value -1 or a next position above the position it was given, having read
\* four bytes of the file there; ReadSubFile calls it once at most on a
\* position, so the calls of a walk are fewer than the bytes of the file allow
C26_Progress ==
    /\ \A e \in walkLog :
          e.outcome = "ok" =>
              \/ e.nextAt = -1
              \/ e.nextAt > e.at /\ e.at + 4 <= Len(stream)
    /\ \A e1, e2 \in walkLog : e1.at = e2.at => e1 = e2
    /\ Cardinality(walkLog) <= (Len(stream) \div 4) + 1

\* C26 witness: ReadSubFile returned without error after a call that went
\* forward to the position of another call and a call that gave the stop
\* value
C26_Witness ==
    /\ readOutcome = "returned"
    /\ readErr = "nil"
    /\ \E e1, e2 \in walkLog :
          /\ e1.outcome = "ok" /\ e2.outcome = "ok"
          /\ e1.at < e1.nextAt
          /\ e1.nextAt = e2.at
          /\ e2.nextAt = -1

(***************************************************************************)
(* Properties of the functions called alone                                *)
(***************************************************************************)
\* C12: in every image SubtitleRAW.Decode returns with the origin (0, 0),
\* full size or not, whatever the pixel data, a pixel whose alpha is not zero
\* has x1 <= x <= x2 and y1 <= y <= y2
C12_OpaqueInsideRectangle ==
    (fnCall.fn = "SubtitleRAWDecode" /\ fnResult.outcome = "ok") =>
        \A p \in DOMAIN fnResult.img.Pix :
           fnResult.img.Pix[p][4] # 0 =>
              /\ fnCall.rect[1] <= p[1] /\ p[1] <= fnCall.rect[2]
              /\ fnCall.rect[3] <= p[2] /\ p[2] <= fnCall.rect[4]

\* C12 witness: a run of 16 pixels of colour 3 and runs to the end of the line
\* were drawn in the rectangle 0..2, 0..2 of a full size image of 6 x 4, and
\* gave pixels that are not transparent
C12_Witness ==
    /\ fnCall.fn = "SubtitleRAWDecode"
    /\ fnCall.pixels = <<4, 49, 0>>
    /\ fnCall.split = 2
    /\ fnCall.rect = <<0, 2, 0, 2>>
    /\ fnCall.fullSize
    /\ fnResult.outcome = "ok"
    /\ \E p \in DOMAIN fnResult.img.Pix : fnResult.img.Pix[p][4] # 0

\* the pixels of the subpicture of a call of SubtitleRAW.Decode, by their
\* position (i, j) in its rectangle, as the format has them
SpuPixelsOfCall ==
    LET sr == extractRAWSubtitle(
                  RenderPayload(fnCall.pixels, fnCall.split, fnCall.rect)).subtitle
        palette == AdjustPalette(metadata.Palette, GetIDs(Tail(CmdPalette)),
                                 GetRatios(Tail(CmdAlpha)))
        w == fnCall.rect[2] - fnCall.rect[1] + 1
        h == fnCall.rect[4] - fnCall.rect[3] + 1
        blank == [p \in (0..(w - 1)) \X (0..(h - 1)) |-> ZeroRGBA]
        first == SpuLines(Slice(sr.Data, 0, fnCall.split),
                          [index |-> 0, readLow |-> FALSE], 0, 0, w, h, palette, blank)
    IN  SpuLines(SliceFrom(sr.Data, fnCall.split),
                 [index |-> 0, readLow |-> FALSE], 0, 1, w, h, palette, first)

\* C24: the image that SubtitleRAW.Decode returns holds, at every position it
\* has inside the rectangle, the pixel of the lines emitted as the format has
\* them: a run that reaches the right edge, as a run of length zero does, ends
\* there, the next codeword is read from a whole byte and painted from the
\* left edge two rows below, and nothing is painted after the nibbles are
\* exhausted or below the rectangle
C24_LineEmission ==
    (fnCall.fn = "SubtitleRAWDecode" /\ fnResult.outcome = "ok") =>
        \E spu \in {SpuPixelsOfCall} :
           \A p \in DOMAIN spu :
              \E q \in {<<fnCall.rect[1] + p[1], fnCall.rect[3] + p[2]>>} :
                 (q[1] < fnCall.rect[2] /\ q[2] < fnCall.rect[4])
                     => fnResult.img.Pix[q] = spu[p]

\* C24 witness: in the rectangle 0..2, 0..3 the first stream is a run of 3
\* pixels of colour 3 in one nibble, which reaches the right edge on the row
\* 0, then a run of 12 pixels of colour 1, read from the next whole byte and
\* painted on the row 2; the second nibble of the first byte is not read
C24_Witness ==
    /\ fnCall.fn = "SubtitleRAWDecode"
    /\ fnCall.pixels = <<255, 49, 255>>
    /\ fnCall.split = 2
    /\ fnCall.rect = <<0, 2, 0, 3>>
    /\ ~fnCall.fullSize
    /\ fnResult.outcome = "ok"
    /\ fnResult.img.Pix[<<0, 0>>] = <<48, 3, 251, 255>>
    /\ fnResult.img.Pix[<<1, 1>>] = <<48, 3, 251, 255>>
    /\ fnResult.img.Pix[<<0, 2>>] = <<16, 1, 253, 255>>

\* the image that one stream of the pixel data of a call gives alone in the
\* blank image of the subtitle: the bytes before the split for the first
\* stream, the bytes from the split for the second
StreamAlone(evenLines) ==
    drawOddOrEvenLines(
        SubtitleImg(CoordinatesGet(Tail(CmdCoordinatesOf(fnCall.rect[1], fnCall.rect[2],
                                                         fnCall.rect[3], fnCall.rect[4])))),
        AdjustPalette(metadata.Palette, GetIDs(Tail(CmdPalette)), GetRatios(Tail(CmdAlpha))),
        IF evenLines
        THEN SliceFrom(fnCall.pixels, fnCall.split)
        ELSE Slice(fnCall.pixels, 0, fnCall.split),
        evenLines).img

\* C25: of the image of a subtitle, the first stream of the pixel data writes
\* pixels of the rows y1, y1 + 2, ... only and the second stream pixels of the
\* rows y1 + 1, y1 + 3, ... only, and each row of the image that
\* SubtitleRAW.Decode returns is the row that its stream wrote
C25_Interlacing ==
    (fnCall.fn = "SubtitleRAWDecode" /\ fnResult.outcome = "ok" /\ ~fnCall.fullSize) =>
        \E first \in {StreamAlone(FALSE)} :
        \E second \in {StreamAlone(TRUE)} :
           \A p \in DOMAIN fnResult.img.Pix :
              /\ first.Pix[p] # ZeroRGBA => (p[2] - fnCall.rect[3]) % 2 = 0
              /\ second.Pix[p] # ZeroRGBA => (p[2] - fnCall.rect[3]) % 2 = 1
              /\ fnResult.img.Pix[p] = IF (p[2] - fnCall.rect[3]) % 2 = 0
                                       THEN first.Pix[p] ELSE second.Pix[p]

\* C25 witness: in the rectangle 0..2, 0..3 the first stream is one run of
\* colour 1, on the row 0, and the second stream a run of colour 3, on the row
\* 1, then a run on the row 3: the row 2 is left blank
C25_Witness ==
    /\ fnCall.fn = "SubtitleRAWDecode"
    /\ fnCall.pixels = <<49, 255, 16>>
    /\ fnCall.split = 1
    /\ fnCall.rect = <<0, 2, 0, 3>>
    /\ ~fnCall.fullSize
    /\ fnResult.outcome = "ok"
    /\ fnResult.img.Pix[<<0, 0>>] = <<16, 1, 253, 255>>
    /\ fnResult.img.Pix[<<0, 1>>] = <<48, 3, 251, 255>>
    /\ fnResult.img.Pix[<<0, 2>>] = ZeroRGBA

\* the tick count of the five groups of bits, as limbs
RefTicks(parts) ==
    Add(MulSmall(Add(MulSmall(Add(MulSmall(Add(MulSmall(ToLimbs(parts[1]), 256),
                                               ToLimbs(parts[2])), 128),
                                  ToLimbs(parts[3])), 256),
                     ToLimbs(parts[4])), 128),
        ToLimbs(parts[5]))

\* 2^63, the first value that is no time.Duration
TwoTo63 == <<5808, 5477, 368, 3372, 922, 0>>

\* C14: the five PTS bytes of a tick count decode to floor(ticks * 10^9 /
\* 90000) nanoseconds, that is floor(ticks * 100000 / 9), whatever the marker
\* bits; ticks * 10^9 stays below 2^64 and the duration below 2^63
C14_PTSDecoding ==
    (fnCall.fn = "ComputePTS" /\ fnResult.outcome = "ok") =>
        /\ fnResult.pts = DivSmall(MulSmall(RefTicks(fnCall.parts), 100000), 9)
        /\ Less(MulSmall(MulSmall(RefTicks(fnCall.parts), 100000), 10000), TwoTo64)
        /\ Less(fnResult.pts, TwoTo63)

\* C14 witness: the tick count 2^33 - 1, with the marker bits of a PTS alone,
\* decoded to 95 443 717 677 777 ns
C14_Witness ==
    /\ fnCall.fn = "ComputePTS"
    /\ fnCall.PTS = <<47, 255, 255, 255, 255>>
    /\ fnResult.outcome = "ok"
    /\ fnResult.pts = <<7777, 1767, 4437, 95, 0, 0>>

\* the nibbles of the first n codewords of a list of runs
RECURSIVE NibblesOf(_, _)
NibblesOf(runs, n) ==
    IF n = 0 THEN 0 ELSE NibblesOf(runs, n - 1) + Len(EncodeRun(runs[n]))

\* C15: decodeRLE, called once per run on the shortest codewords of a list of
\* runs of 1..255 pixels, returns no error and the runs of the list, each with
\* its length and colour, and has read after each call the nibbles of the
\* codewords up to that run and no more
C15_RLELeftInverse ==
    (fnCall.fn = "decodeRLE" /\ fnResult.outcome # "none") =>
        /\ fnResult.outcome = "ok"
        /\ fnResult.pixels = fnCall.runs
        /\ fnResult.read = [n \in 1..Len(fnCall.runs) |-> NibblesOf(fnCall.runs, n)]

\* C15 witness: a run of 255 pixels of colour 3 (4 nibbles) then a run of 4
\* pixels of colour 2 (2 nibbles) were decoded from the bytes 03 FF 12
C15_Witness ==
    /\ fnCall.fn = "decodeRLE"
    /\ fnCall.data = <<3, 255, 18>>
    /\ fnResult.outcome = "ok"
    /\ fnResult.pixels = <<[repeat |-> 255, color |-> 3], [repeat |-> 4, color |-> 2]>>
    /\ fnResult.read = <<4, 6>>

\* C17: the walk of extractRAWSubtitle over the control sequences ends, after
\* at most len(Payload) / 4 sequences, and a chain of next offsets that comes
\* back to a sequence already parsed (other than the last sequence pointing
\* to itself) ends with an error
C17_WalkBounded ==
    (fnCall.fn = "extractRAWSubtitle" /\ fnResult # NoResult) =>
        /\ fnResult.outcome # "hang"
        /\ 4 * Len(fnResult.subtitle.ControlSequences) <= Len(fnCall.Payload)

\* C18: extractRAWSubtitle on a payload of length L returns an error, and no
\* data nor control sequence, when L < 4, when the size field is not L, when
\* the data size field is above L or when it is below 4
C18_HeaderValidation ==
    (/\ fnCall.fn = "extractRAWSubtitle"
     /\ fnResult # NoResult
     /\ \E L \in {Len(fnCall.Payload)} :
           \/ L < 4
           \/ BE16(fnCall.Payload[1], fnCall.Payload[2]) # L
           \/ BE16(fnCall.Payload[3], fnCall.Payload[4]) > L
           \/ BE16(fnCall.Payload[3], fnCall.Payload[4]) < 4)
    => /\ fnResult.outcome = "error"
       /\ fnResult.subtitle = ZeroSubtitleRAW

\* C20: for the data made of the fields that the flags announce,
\* ParsePESExtensionData returns no error, returns the index after the last
\* byte of the last field, and each field of Data holds the bytes of its own
\* field when it is flagged and nothing otherwise
C20_FieldsInOrder ==
    (fnCall.fn = "ParsePESExtensionData" /\ fnResult # NoResult) =>
        \E fields \in {ExtensionFields(fnCall.flags, fnCall.headers, fnCall.n2)} :
           /\ fnResult.outcome = "ok"
           /\ fnResult.index = Len(EncodeFields(fields, 1))
           /\ \A i \in 1..Len(fields) :
                 fields[i].field \in DOMAIN fnResult.Data =>
                     fnResult.Data[fields[i].field]
                         = (IF fields[i].present THEN fields[i].value ELSE <<>>)

\* the indices of the control sequences with the command `flag`
Flagged(ControlSequences, flag) ==
    {i \in 1..Len(ControlSequences) : ControlSequences[i][flag]}

\* C21: for a list of control sequences with one start-date and one stop-date
\* command, in the same sequence or not, SubtitleRAW.Decode returns as start
\* delay the date of the sequence with the start-date command and as stop
\* delay the date of the sequence with the stop-date command
C21_FoldDates ==
    (fnCall.fn = "DecodeSequences" /\ fnResult # NoResult) =>
        \E css \in {fnCall.ControlSequences} :
           /\ fnResult.outcome = "ok"
           /\ \A i \in 1..Len(css) :
                 /\ Flagged(css, "StartDate") = {i}
                       => fnResult.startDelay = GetDelay(css[i].Date)
                 /\ Flagged(css, "StopDate") = {i}
                       => fnResult.stopDelay = GetDelay(css[i].Date)

\* the nibble of the colour cc (0..3) in the two bytes of arguments of a
\* palette or alpha command: c3 c2, c1 c0
NibbleOfColor(args, cc) ==
    IF cc = 0 THEN args[2] % 16
    ELSE IF cc = 1 THEN args[2] \div 16
    ELSE IF cc = 2 THEN args[1] % 16
    ELSE args[1] \div 16

\* C22 as stated: the alpha of the pixel of the colour cc is
\* floor(A * n / 16), with A the main alpha and n the alpha nibble of cc, and
\* a colour with a larger nibble has no smaller alpha
C22_AlphaScaling ==
    (fnCall.fn = "DecodeColors" /\ fnResult # NoResult) =>
        /\ fnResult.outcome = "ok"
        /\ \A cc \in 0..3 :
              fnResult.img.Pix[<<cc, 0>>][4]
                  = (fnCall.mainAlpha * NibbleOfColor(fnCall.alpha, cc)) \div 16
        /\ \A c1, c2 \in 0..3 :
              NibbleOfColor(fnCall.alpha, c1) <= NibbleOfColor(fnCall.alpha, c2)
                  => fnResult.img.Pix[<<c1, 0>>][4] <= fnResult.img.Pix[<<c2, 0>>][4]

\* C23: the pixel of the colour cc has the red, green and blue of the palette
\* entry selected by the palette nibble of the position of cc, and the alpha
\* computed from the alpha nibble of the same position: the low nibble of
\* the second byte for 0, the high nibble of the first byte for 3
C23_SamePosition ==
    (fnCall.fn = "DecodeColors" /\ fnResult # NoResult) =>
        /\ fnResult.outcome = "ok"
        /\ \A cc \in 0..3 :
              \E entry \in {IdxPalette(fnCall.mainAlpha)
                                [NibbleOfColor(fnCall.palette, cc) + 1]} :
                 fnResult.img.Pix[<<cc, 0>>]
                     = <<entry[1], entry[2], entry[3],
                         ((entry[4] * 257 * NibbleOfColor(fnCall.alpha, cc)) \div 16)
                             % 256>>

\* C23 witness: palette arguments 32 10, alpha arguments 01 23, main alpha
\* 128: the pixel of colour 0 is the entry 0 with the alpha of the nibble 3,
\* the pixel of colour 3 the entry 3 with the alpha of the nibble 0
C23_Witness ==
    /\ fnCall.fn = "DecodeColors"
    /\ fnCall.palette = <<50, 16>>
    /\ fnCall.alpha = <<1, 35>>
    /\ fnCall.mainAlpha = 128
    /\ fnResult # NoResult
    /\ fnResult.outcome = "ok"
    /\ fnResult.img.Pix[<<0, 0>>] = <<0, 0, 254, 24>>
    /\ fnResult.img.Pix[<<1, 0>>] = <<16, 1, 253, 16>>
    /\ fnResult.img.Pix[<<3, 0>>] = <<48, 3, 251, 0>>

\* C30 as stated: when the flags announce fields that need more bytes than the
\* header length provides, ParsePESExtensionData returns an error and reads
\* no byte past the end of the data
C30_NoReadPastData ==
    (fnCall.fn = "ParseShortExtensionData" /\ fnResult # NoResult)
        => fnResult.outcome = "error"

====
